---- MODULE Spec2Model ----
(***************************************************************************)
(* A model of dartfx-rdf: the lightweight triple store and its text codec  *)
(* (src/rdflib/__init__.py) and the typed mapping engine built on it       *)
(* (src/src/dartfx/rdf/pydantic/_base.py).                                 *)
(*                                                                         *)
(* Python strings are TLA+ strings; the only string primitives used are    *)
(* Len, \o and SubSeq.  Python values are tagged records:                  *)
(*   None                 [t |-> "None"]                                   *)
(*   str                  [t |-> "str", s |-> "..."]                       *)
(*   int                  [t |-> "int", n |-> 42]                          *)
(*   list                 [t |-> "list", items |-> << ... >>]              *)
(*   rdflib.URIRef        [t |-> "URIRef", s |-> "..."]                    *)
(*   rdflib.Literal       [t |-> "Literal", value, datatype, lang]         *)
(*   rdflib.BNode         [t |-> "BNode", n |-> 1]                         *)
(*   a model instance     [t |-> "model", cls |-> "Person", v |-> [...]]   *)
(***************************************************************************)
EXTENDS Integers, Sequences, FiniteSets, TLC

\* graph: the store under test; rec: the record under test; op, arg, res: the
\* last operation with its input and its result; hist: the texts produced for
\* rec so far, oldest first; fresh: the count of fresh identities drawn so far
VARIABLES graph, rec, op, arg, res, hist, fresh

vars == <<graph, rec, op, arg, res, hist, fresh>>

\* F(e) with e computed once, as an assignment to a local variable is: the
\* bodies below bind the value of each local variable of the code this way
\* before they use it.
Let(e, F(_)) == CHOOSE y \in {F(x) : x \in {e}} : TRUE

(***************************************************************************)
(* Python built-ins on strings                                             *)
(***************************************************************************)

\* s[i] (1-based), as a one-character string
Ch(s, i) == SubSeq(s, i, i)

\* s[i:] for a 1-based first index i
From(s, i) == SubSeq(s, i, Len(s))

\* str.startswith
StartsWith(s, p) == Len(p) <= Len(s) /\ SubSeq(s, 1, Len(p)) = p

\* str.endswith
EndsWith(s, p) == Len(p) <= Len(s) /\ SubSeq(s, Len(s) - Len(p) + 1, Len(s)) = p

\* the characters str.strip() removes (those the model's alphabets hold)
Whitespace == {" ", "\t", "\n", "\r"}

\* The loops over the characters of a string are written by halving the range,
\* which keeps the depth of evaluation logarithmic; the result is that of the
\* left-to-right loop.

\* the first index in lo..hi whose character is (inC) or is not (~inC) in C,
\* 0 if none
RECURSIVE FirstIn(_, _, _, _, _)
FirstIn(s, C, inC, lo, hi) ==
    IF lo > hi THEN 0
    ELSE IF lo = hi THEN (IF (Ch(s, lo) \in C) = inC THEN lo ELSE 0)
    ELSE LET mid == (lo + hi) \div 2
             l == FirstIn(s, C, inC, lo, mid)
         IN IF l > 0 THEN l ELSE FirstIn(s, C, inC, mid + 1, hi)

\* the last such index, 0 if none
RECURSIVE LastIn(_, _, _, _, _)
LastIn(s, C, inC, lo, hi) ==
    IF lo > hi THEN 0
    ELSE IF lo = hi THEN (IF (Ch(s, lo) \in C) = inC THEN lo ELSE 0)
    ELSE LET mid == (lo + hi) \div 2
             r == LastIn(s, C, inC, mid + 1, hi)
         IN IF r > 0 THEN r ELSE LastIn(s, C, inC, lo, mid)

\* str.strip()
Strip(s0) ==
    Let(s0, LAMBDA s :
    Let(FirstIn(s, Whitespace, FALSE, 1, Len(s)), LAMBDA first :
        IF first = 0 THEN ""
        ELSE SubSeq(s, first, LastIn(s, Whitespace, FALSE, 1, Len(s)))))

\* str.find(c) + 1 for a one-character c: the first index of c in s, 0 if none
Find(s0, c) == Let(s0, LAMBDA s : FirstIn(s, {c}, TRUE, 1, Len(s)))

\* c in s
Contains(s, c) == Find(s, c) > 0

\* the lines of s[lo..] for the line break "\n"
RECURSIVE LinesFrom(_, _)
LinesFrom(s, lo) ==
    IF lo > Len(s) THEN <<>>
    ELSE Let(FirstIn(s, {"\n"}, TRUE, lo, Len(s)), LAMBDA i :
            IF i = 0 THEN <<SubSeq(s, lo, Len(s))>>
            ELSE <<SubSeq(s, lo, i - 1)>> \o LinesFrom(s, i + 1))

\* str.splitlines() for the line break "\n"
SplitLines(s0) == Let(s0, LAMBDA s : LinesFrom(s, 1))

\* sep.join(parts[lo..hi])
RECURSIVE JoinRange(_, _, _, _)
JoinRange(parts, sep, lo, hi) ==
    IF lo > hi THEN ""
    ELSE IF lo = hi THEN parts[lo]
    ELSE Let((lo + hi) \div 2, LAMBDA mid :
            JoinRange(parts, sep, lo, mid) \o sep \o JoinRange(parts, sep, mid + 1, hi))

\* sep.join(parts)
Join(parts0, sep) == Let(parts0, LAMBDA parts : JoinRange(parts, sep, 1, Len(parts)))

\* The characters of the model's strings in code-point order: Python compares
\* strings by code point, character by character.
CharOrder ==
    << "\t", "\n", "\r", " ", "!", "\"", "#", "%", "&", "'", "(", ")", "+", ",",
       "-", ".", "/",
       "0", "1", "2", "3", "4", "5", "6", "7", "8", "9", ":", ";", "<", "=",
       ">", "?", "@",
       "A", "B", "C", "D", "E", "F", "G", "H", "I", "J", "K", "L", "M", "N",
       "O", "P", "Q", "R", "S", "T", "U", "V", "W", "X", "Y", "Z",
       "[", "\\", "]", "^", "_",
       "a", "b", "c", "d", "e", "f", "g", "h", "i", "j", "k", "l", "m", "n",
       "o", "p", "q", "r", "s", "t", "u", "v", "w", "x", "y", "z", "{", "}" >>

Ord(c) == CHOOSE i \in DOMAIN CharOrder : CharOrder[i] = c

Digits == {"0", "1", "2", "3", "4", "5", "6", "7", "8", "9"}

Letters == {CharOrder[i] : i \in {j \in DOMAIN CharOrder :
                 \/ Ord("A") <= j /\ j <= Ord("Z")
                 \/ Ord("a") <= j /\ j <= Ord("z")}}

\* the first index in lo..hi at which a and b differ, given that they agree
\* before lo and differ somewhere in lo..hi
RECURSIVE FirstDiff(_, _, _, _)
FirstDiff(a, b, lo, hi) ==
    IF lo >= hi THEN lo
    ELSE LET mid == (lo + hi) \div 2
         IN IF SubSeq(a, lo, mid) = SubSeq(b, lo, mid)
            THEN FirstDiff(a, b, mid + 1, hi)
            ELSE FirstDiff(a, b, lo, mid)

\* a < b for Python strings
StrLess(a0, b0) ==
    Let(<<a0, b0>>, LAMBDA ab :
    Let(IF Len(ab[1]) < Len(ab[2]) THEN Len(ab[1]) ELSE Len(ab[2]), LAMBDA n :
        IF SubSeq(ab[1], 1, n) = SubSeq(ab[2], 1, n) THEN Len(ab[1]) < Len(ab[2])
        ELSE Let(FirstDiff(ab[1], ab[2], 1, n), LAMBDA i :
                Ord(Ch(ab[1], i)) < Ord(Ch(ab[2], i)))))

\* a < b for Python tuples of strings (the sort keys)
RECURSIVE TupleLess(_, _)
TupleLess(a, b) ==
    IF Len(b) = 0 THEN FALSE
    ELSE IF Len(a) = 0 THEN TRUE
    ELSE IF a[1] = b[1] THEN TupleLess(Tail(a), Tail(b))
    ELSE StrLess(a[1], b[1])

\* str(n) for an int n
RECURSIVE NatStr(_)
NatStr(n) ==
    IF n < 10 THEN Ch("0123456789", n + 1)
    ELSE NatStr(n \div 10) \o Ch("0123456789", (n % 10) + 1)

IntStr(n) == IF n < 0 THEN "-" \o NatStr(0 - n) ELSE NatStr(n)

(***************************************************************************)
(* Python values                                                           *)
(***************************************************************************)

None == [t |-> "None"]

PyStr(s) == [t |-> "str", s |-> s]

PyInt(n) == [t |-> "int", n |-> n]

PyBool(b) == [t |-> "bool", b |-> b]

\* datetime.date(year, month, day)
PyDate(year, month, day) == [t |-> "date", year |-> year, month |-> month, day |-> day]

\* date.isoformat
isoformat(d) ==
    LET Pad(n, w) == SubSeq("0000", 1, w - Len(NatStr(n))) \o NatStr(n)
    IN Pad(d.year, 4) \o "-" \o Pad(d.month, 2) \o "-" \o Pad(d.day, 2)

\* datetime.datetime(year, month, day, hour, minute, second)
PyDateTime(d, hour, minute, second) ==
    [t |-> "datetime", date |-> d, hour |-> hour, minute |-> minute,
     second |-> second]

\* a float: the number with the sign, the whole part and the decimal digits
\* given (frac has no trailing zero)
PyFloat(neg, whole, frac) == [t |-> "float", neg |-> neg, whole |-> whole, frac |-> frac]

\* a Decimal: built from a text it keeps the digits written; built from a
\* float it is the exact value of the float
PyDecimal(neg, whole, frac) ==
    [t |-> "Decimal", neg |-> neg, whole |-> whole, frac |-> frac]

PyList(items) == [t |-> "list", items |-> items]

URIRef(s) == [t |-> "URIRef", s |-> s]

BNode(n) == [t |-> "BNode", n |-> n]

\* Literal(value, datatype=None, lang=None): a frozen dataclass, no validation
Literal(value, datatype, lang) ==
    [t |-> "Literal", value |-> value, datatype |-> datatype, lang |-> lang]

\* URIRef subclasses str: a URIRef is a str wherever a str is asked for
IsStr(v) == v.t \in {"str", "URIRef"}

\* repr() of a str: quoted with ', or with " when the text holds ' and no ";
\* the backslash, the quote in use and the line break are escaped
ReprChar(c, q) ==
    IF c = "\\" THEN "\\\\"
    ELSE IF c = q THEN "\\" \o q
    ELSE IF c = "\n" THEN "\\n"
    ELSE IF c = "\t" THEN "\\t"
    ELSE IF c = "\r" THEN "\\r"
    ELSE c

RECURSIVE ReprBody(_, _, _, _)
ReprBody(s, q, lo, hi) ==
    IF lo > hi THEN ""
    ELSE IF lo = hi THEN ReprChar(Ch(s, lo), q)
    ELSE LET mid == (lo + hi) \div 2
         IN ReprBody(s, q, lo, mid) \o ReprBody(s, q, mid + 1, hi)

StrRepr(s0) ==
    Let(s0, LAMBDA s :
    Let(IF Contains(s, "'") /\ ~Contains(s, "\"") THEN "\"" ELSE "'", LAMBDA q :
        q \o ReprBody(s, q, 1, Len(s)) \o q))

\* repr(v) for the values a Literal holds
Repr(v) ==
    CASE v.t = "None" -> "None"
      [] v.t = "int" -> IntStr(v.n)
      [] IsStr(v) -> StrRepr(v.s)
      [] v.t = "date" ->
            "datetime.date(" \o IntStr(v.year) \o ", " \o IntStr(v.month) \o ", "
                \o IntStr(v.day) \o ")"
      [] OTHER -> "<object>"

\* str(v); a Literal is a dataclass and prints as its generated repr
Str(v) ==
    CASE v.t = "None" -> "None"
      [] v.t = "int" -> IntStr(v.n)
      [] IsStr(v) -> v.s
      [] v.t = "date" -> isoformat(v)
      [] v.t = "datetime" ->
            LET Pad(n) == IF n < 10 THEN "0" \o NatStr(n) ELSE NatStr(n)
            IN isoformat(v.date) \o " " \o Pad(v.hour) \o ":" \o Pad(v.minute)
                    \o ":" \o Pad(v.second)
      [] v.t = "float" ->
            (IF v.neg THEN "-" ELSE "") \o NatStr(v.whole) \o "."
                \o (IF v.frac = "" THEN "0" ELSE v.frac)
      [] v.t = "Decimal" /\ "frac" \in DOMAIN v ->
            (IF v.neg THEN "-" ELSE "") \o NatStr(v.whole)
                \o (IF v.frac = "" THEN "" ELSE "." \o v.frac)
      [] v.t = "bool" -> IF v.b THEN "True" ELSE "False"
      [] v.t = "BNode" -> "N" \o IntStr(v.n)
      [] v.t = "Literal" ->
            "Literal(value=" \o Repr(v.value) \o ", datatype=" \o Repr(v.datatype)
                \o ", lang=" \o Repr(v.lang) \o ")"
      [] OTHER -> "<object>"

\* bool(v): Python truthiness
Truthy(v) ==
    CASE v.t = "None" -> FALSE
      [] IsStr(v) -> v.s # ""
      [] v.t = "int" -> v.n # 0
      [] v.t = "bool" -> v.b
      [] v.t = "list" -> Len(v.items) > 0
      [] OTHER -> TRUE

(***************************************************************************)
(* rdflib: namespaces and terms (src/rdflib/__init__.py)                   *)
(***************************************************************************)

RDF == "http://www.w3.org/1999/02/22-rdf-syntax-ns#"

RDF_type == URIRef(RDF \o "type")

XSD == "http://www.w3.org/2001/XMLSchema#"

XSD_string == URIRef(XSD \o "string")

XSD_integer == URIRef(XSD \o "integer")

XSD_boolean == URIRef(XSD \o "boolean")

XSD_date == URIRef(XSD \o "date")

XSD_dateTime == URIRef(XSD \o "dateTime")

XSD_decimal == URIRef(XSD \o "decimal")

\* raise exc(msg): the outcome of an operation that fails
Raise(exc, msg) == [t |-> "raise", exc |-> exc, msg |-> msg]

IsRaise(v) == v.t = "raise"

(***************************************************************************)
(* rdflib.Graph: a set of triples and a dict of prefixes                   *)
(***************************************************************************)

\* an empty dict
EmptyDict == [k \in {} |-> ""]

\* d[k] = v
DictSet(d, k, v) == [x \in (DOMAIN d) \cup {k} |-> IF x = k THEN v ELSE d[x]]

\* Graph()
NewGraph == [t |-> "Graph", triples |-> {}, namespaces |-> EmptyDict]

\* a store that forgets a triple when it is added again
GraphAdd_toggle(g, triple) ==
    [g EXCEPT !.triples = IF triple \in g.triples THEN g.triples \ {triple}
                          ELSE g.triples \cup {triple}]

\* Graph.add
GraphAdd(g, triple) == [g EXCEPT !.triples = g.triples \cup {triple}]

\* Graph.__contains__
GraphContains(g, triple) == triple \in g.triples

\* Graph.bind (the namespace manager keeps the same table)
GraphBind(g, prefix, namespace) ==
    [g EXCEPT !.namespaces = DictSet(g.namespaces, prefix, namespace)]

\* The orders in which iterating a set can yield its elements: the order of a
\* Python set is an implementation detail, so every order is possible.
RECURSIVE IterOrders(_)
IterOrders(S) ==
    IF S = {} THEN {<<>>}
    ELSE UNION {{<<x>> \o r : r \in IterOrders(S \ {x})} : x \in S}

\* Graph.objects(subject, predicate), as the set of terms it yields
GraphObjects(g, subject, predicate) ==
    {tr[3] : tr \in {x \in g.triples : x[1] = subject /\ x[2] = predicate}}

\* Graph.subjects(predicate, object); None leaves a position open
GraphSubjects(g, predicate, object) ==
    {tr[1] : tr \in {x \in g.triples :
                        /\ predicate # None => x[2] = predicate
                        /\ object # None => x[3] = object}}

(***************************************************************************)
(* The line notation: serializer                                           *)
(***************************************************************************)

\* _format_term
format_term(term) ==
    IF term.t = "URIRef" THEN "<" \o term.s \o ">"
    ELSE IF term.t = "Literal" THEN
        "\"" \o Str(term.value) \o "\"" \o
            (IF Truthy(term.lang) THEN "@" \o Str(term.lang)
             ELSE IF Truthy(term.datatype) THEN "^^<" \o Str(term.datatype) \o ">"
             ELSE "")
    ELSE Str(term)

\* a sort key that leaves the object out
triple_sort_key_no_object(triple) == <<Str(triple[1]), Str(triple[2])>>

\* _triple_sort_key
triple_sort_key(triple) == <<Str(triple[1]), Str(triple[2]), Str(triple[3])>>

\* sorted(S, key=Key): all the lists a stable sort can return over the orders
\* in which S may be iterated, which are the orderings of S by non-decreasing
\* key (elements with equal keys keep their iteration order).
\* S is a set of pairs <<key, element>>.
RECURSIVE SortedBy(_)
SortedBy(S) ==
    IF S = {} THEN {<<>>}
    ELSE LET least == {x \in S : \A y \in S : ~TupleLess(y[1], x[1])}
         IN UNION {{<<x[2]>> \o r : r \in SortedBy(S \ {x})} : x \in least}

\* sorted(graph._triples, key=_triple_sort_key)
SortedTriples(g) ==
    Let({<<triple_sort_key(tr), tr>> : tr \in g.triples}, LAMBDA S : SortedBy(S))

\* sorted(graph._namespaces.items()): the items are tuples (prefix, namespace)
\* and compare as such
SortedPrefixes(g) ==
    SortedBy({<<<<p, g.namespaces[p]>>, <<p, g.namespaces[p]>>>> :
                 p \in DOMAIN g.namespaces})

\* one "@prefix" line
PrefixLine(item) == "@prefix " \o item[1] \o ": <" \o item[2] \o "> ."

\* one triple line
TripleLine(triple) ==
    format_term(triple[1]) \o " " \o format_term(triple[2]) \o " "
        \o format_term(triple[3]) \o " ."

\* _serialize_turtle for one sorted list of prefixes and one of triples
TurtleText(prefixes, triples) ==
    Join([i \in 1..Len(prefixes) |-> PrefixLine(prefixes[i])]
         \o (IF Len(triples) > 0 THEN <<"">> ELSE <<>>)
         \o [i \in 1..Len(triples) |-> TripleLine(triples[i])], "\n") \o "\n"

\* _serialize_turtle: every text the serializer can return for the graph
serialize_turtle(g) ==
    {TurtleText(ps, ts) : ps \in SortedPrefixes(g), ts \in SortedTriples(g)}

(***************************************************************************)
(* The line notation: parser                                               *)
(***************************************************************************)

\* _parse_prefix: the pair (prefix, namespace) or the ValueError raised
parse_prefix(line) ==
    Let(Strip(From(line, Len("@prefix") + 1)), LAMBDA rest :
    Let(Find(rest, ":"), LAMBDA colon :
        IF colon = 0
        THEN Raise("ValueError", "not enough values to unpack")
        ELSE Let(SubSeq(rest, 1, colon - 1), LAMBDA prefix :
             Let(Strip(From(rest, colon + 1)), LAMBDA uri0 :
             Let(IF EndsWith(uri0, ".")
                 THEN Strip(SubSeq(uri0, 1, Len(uri0) - 1)) ELSE uri0, LAMBDA uri :
                IF ~(StartsWith(uri, "<") /\ EndsWith(uri, ">"))
                THEN Raise("ValueError", "Invalid prefix declaration")
                ELSE [t |-> "tuple", prefix |-> Strip(prefix),
                      namespace |-> SubSeq(uri, 2, Len(uri) - 1)])))))

\* one pass of the loop of _split_triple: st holds tokens, current, in_quote
\* and escape
SplitStep(st, char) ==
    IF st.in_quote THEN
        [st EXCEPT !.current = st.current \o char,
                   !.escape = IF st.escape THEN FALSE ELSE char = "\\",
                   !.in_quote = st.escape \/ char = "\\" \/ char # "\""]
    ELSE IF char = "\"" THEN
        [st EXCEPT !.in_quote = TRUE, !.current = st.current \o char]
    ELSE IF char \in {" ", "\t"} THEN
        IF st.current # ""
        THEN [st EXCEPT !.tokens = Append(st.tokens, st.current), !.current = ""]
        ELSE st
    ELSE [st EXCEPT !.current = st.current \o char]

\* the loop of _split_triple over line[lo..hi]
RECURSIVE SplitLoop(_, _, _, _)
SplitLoop(line, lo, hi, st) ==
    IF lo > hi THEN st
    ELSE IF lo = hi THEN SplitStep(st, Ch(line, lo))
    ELSE Let((lo + hi) \div 2, LAMBDA mid :
         Let(SplitLoop(line, lo, mid, st), LAMBDA left :
            SplitLoop(line, mid + 1, hi, left)))

\* _split_triple: the tuple (subject, predicate, obj) or the ValueError raised
split_triple(line0) ==
    Let(line0, LAMBDA line :
    Let(SplitLoop(line, 1, Len(line),
                  [tokens |-> <<>>, current |-> "", in_quote |-> FALSE,
                   escape |-> FALSE]), LAMBDA st :
    Let(IF st.current # "" THEN Append(st.tokens, st.current) ELSE st.tokens,
        LAMBDA tokens :
        IF Len(tokens) < 3
        THEN Raise("ValueError", "Unable to parse triple from line")
        ELSE [t |-> "tuple", subject |-> tokens[1], predicate |-> tokens[2],
              obj |-> Join(SubSeq(tokens, 3, Len(tokens)), " ")])))

\* a term parser that takes an unbound prefix for a relative identifier
parse_term_lenient(g, token) ==
    IF StartsWith(token, "<") /\ EndsWith(token, ">")
    THEN URIRef(SubSeq(token, 2, Len(token) - 1))
    ELSE IF token = "a" THEN RDF_type
    ELSE IF Contains(token, ":")
            /\ SubSeq(token, 1, Find(token, ":") - 1) \in DOMAIN g.namespaces
    THEN URIRef(g.namespaces[SubSeq(token, 1, Find(token, ":") - 1)]
                    \o From(token, Find(token, ":") + 1))
    ELSE URIRef(token)

\* _parse_term: the URIRef or the ValueError raised
parse_term(g, token) ==
    IF StartsWith(token, "<") /\ EndsWith(token, ">")
    THEN URIRef(SubSeq(token, 2, Len(token) - 1))
    ELSE IF token = "a" THEN RDF_type
    ELSE IF Contains(token, ":") THEN
        LET colon == Find(token, ":")
            prefix == SubSeq(token, 1, colon - 1)
        IN IF prefix \notin DOMAIN g.namespaces
           THEN Raise("ValueError", "Unknown prefix " \o prefix)
           ELSE URIRef(g.namespaces[prefix] \o From(token, colon + 1))
    ELSE URIRef(token)

\* one pass of the loop of _split_literal at index i: st holds escaped and
\* end, the index of the closing quote once the loop has left with break (0
\* before that)
LiteralStep(st, char, i) ==
    IF st.end > 0 THEN st
    ELSE IF char = "\\" /\ ~st.escaped THEN [st EXCEPT !.escaped = TRUE]
    ELSE IF char = "\"" /\ ~st.escaped THEN [st EXCEPT !.end = i]
    ELSE [st EXCEPT !.escaped = FALSE]

\* the loop of _split_literal over token[lo..hi]
RECURSIVE LiteralLoop(_, _, _, _)
LiteralLoop(token, lo, hi, st) ==
    IF lo > hi THEN st
    ELSE IF lo = hi THEN LiteralStep(st, Ch(token, lo), lo)
    ELSE Let((lo + hi) \div 2, LAMBDA mid :
         Let(LiteralLoop(token, lo, mid, st), LAMBDA left :
            IF left.end > 0 THEN left ELSE LiteralLoop(token, mid + 1, hi, left)))

\* _split_literal: the pair (value, rest).  Indices are 1-based here: the
\* opening quote is token[1] and the scan starts at token[2]; without a closing
\* quote the scan ends past the last character.
split_literal(token0) ==
    Let(token0, LAMBDA token :
    Let(LiteralLoop(token, 2, Len(token), [escaped |-> FALSE, end |-> 0]), LAMBDA st :
    Let(IF st.end > 0 THEN st.end ELSE Len(token) + 1, LAMBDA end :
        <<SubSeq(token, 2, end - 1), Strip(From(token, end + 1))>>)))

\* _parse_object: the term or the ValueError raised
parse_object(g, token0) ==
    Let(Strip(token0), LAMBDA token :
        IF StartsWith(token, "\"") THEN
            Let(split_literal(token), LAMBDA vr :
                IF StartsWith(vr[2], "@")
                THEN Literal(PyStr(vr[1]), None, PyStr(From(vr[2], 2)))
                ELSE IF StartsWith(vr[2], "^^")
                THEN Let(parse_term(g, From(vr[2], 3)), LAMBDA datatype :
                        IF IsRaise(datatype) THEN datatype
                        ELSE Literal(PyStr(vr[1]), datatype, None))
                ELSE Literal(PyStr(vr[1]), None, None))
        ELSE parse_term(g, token))

\* one pass of the loop of _parse_turtle over raw_line: the graph after it, or
\* the exception that ends the parse
ParseLine(g, raw_line) ==
    Let(Strip(raw_line), LAMBDA line :
        IF line = "" \/ StartsWith(line, "#") THEN g
        ELSE IF StartsWith(line, "@prefix") THEN
            Let(parse_prefix(line), LAMBDA pn :
                IF IsRaise(pn) THEN pn
                ELSE GraphBind(g, pn.prefix, pn.namespace))
        ELSE IF ~EndsWith(line, ".") THEN g
        ELSE Let(split_triple(Strip(SubSeq(line, 1, Len(line) - 1))), LAMBDA spo :
                IF IsRaise(spo) THEN spo
                ELSE Let(parse_term(g, spo.subject), LAMBDA subject :
                        IF IsRaise(subject) THEN subject
                        ELSE Let(parse_term(g, spo.predicate), LAMBDA predicate :
                            IF IsRaise(predicate) THEN predicate
                            ELSE Let(parse_object(g, spo.obj), LAMBDA obj :
                                IF IsRaise(obj) THEN obj
                                ELSE GraphAdd(g, <<subject, predicate, obj>>))))))

\* the loop of _parse_turtle: the graph as the parse leaves it, and the
\* exception that ended it (None when it ran to the end)
RECURSIVE ParseLines(_, _, _)
ParseLines(g, lines, i) ==
    IF i > Len(lines) THEN [graph |-> g, exc |-> None]
    ELSE Let(ParseLine(g, lines[i]), LAMBDA r :
            IF IsRaise(r) THEN [graph |-> g, exc |-> r]
            ELSE ParseLines(r, lines, i + 1))

\* a parser that fills an empty store instead of the one it is given
parse_turtle_fresh(g0, data) ==
    Let(SplitLines(data), LAMBDA lines : ParseLines(NewGraph, lines, 1))

\* _parse_turtle
parse_turtle(g0, data) ==
    Let(g0, LAMBDA g : Let(SplitLines(data), LAMBDA lines : ParseLines(g, lines, 1)))

\* Graph.parse that reads the data whatever the format asked for
GraphParse_any(g, data, format) == parse_turtle(g, data)

\* Graph.parse
GraphParse(g, data, format) ==
    IF format # "turtle"
    THEN [graph |-> g,
          exc |-> Raise("ValueError", "Only Turtle input is supported by this lightweight implementation")]
    ELSE parse_turtle(g, data)

(***************************************************************************)
(* The tag notation: serializer                                            *)
(***************************************************************************)

\* _escape
escape(value) ==
    Join([i \in 1..Len(value) |->
            CASE Ch(value, i) = "&" -> "&amp;"
              [] Ch(value, i) = "<" -> "&lt;"
              [] Ch(value, i) = ">" -> "&gt;"
              [] OTHER -> Ch(value, i)], "")

\* _local_name
local_name(uri) ==
    Let(LastIn(uri, {"#"}, TRUE, 1, Len(uri)), LAMBDA hash :
        IF hash > 0 THEN From(uri, hash + 1)
        ELSE Let(LastIn(uri, {"/"}, TRUE, 1, Len(uri)), LAMBDA slash :
                IF slash > 0 THEN From(uri, slash + 1) ELSE uri))

\* the lines of _serialize_xml for one triple
DescriptionLines(triple) ==
    Let(local_name(Str(triple[2])), LAMBDA name :
        << "  <rdf:Description rdf:about=\"" \o escape(Str(triple[1])) \o "\">",
           IF triple[3].t = "Literal" THEN
               IF Truthy(triple[3].lang)
               THEN "    <" \o name \o " xml:lang=\"" \o Str(triple[3].lang) \o "\">"
                        \o escape(Str(triple[3].value)) \o "</" \o name \o ">"
               ELSE IF Truthy(triple[3].datatype)
               THEN "    <" \o name \o " rdf:datatype=\"" \o Str(triple[3].datatype)
                        \o "\">" \o escape(Str(triple[3].value)) \o "</" \o name \o ">"
               ELSE "    <" \o name \o ">" \o escape(Str(triple[3].value))
                        \o "</" \o name \o ">"
           ELSE "    <" \o name \o " rdf:resource=\"" \o escape(Str(triple[3])) \o "\" />",
           "  </rdf:Description>" >>)

\* the lines of _serialize_xml for a list of triples
RECURSIVE DescriptionsFrom(_, _)
DescriptionsFrom(triples, i) ==
    IF i > Len(triples) THEN <<>>
    ELSE DescriptionLines(triples[i]) \o DescriptionsFrom(triples, i + 1)

\* _serialize_xml for one sorted list of namespaces and one of triples
XmlText(prefixes, triples) ==
    Join(<<"<rdf:RDF "
              \o Join([i \in 1..Len(prefixes) |->
                         "xmlns:" \o prefixes[i][1] \o "=\"" \o prefixes[i][2] \o "\""], " ")
              \o ">">>
         \o DescriptionsFrom(triples, 1) \o <<"</rdf:RDF>">>, "\n")

\* _serialize_xml: every text the serializer can return for the graph
serialize_xml(g) ==
    Let([p \in (DOMAIN g.namespaces) \cup {"rdf", "xsd"} |->
            IF p \in DOMAIN g.namespaces THEN g.namespaces[p]
            ELSE IF p = "rdf" THEN RDF ELSE XSD], LAMBDA namespaces :
        {XmlText(ps, ts) :
            ps \in SortedBy({<<<<p, namespaces[p]>>, <<p, namespaces[p]>>>> :
                                p \in DOMAIN namespaces}),
            ts \in SortedTriples(g)})

\* Graph.serialize: the texts it can return, or the exception raised
GraphSerialize(g, format) ==
    IF format = "turtle" THEN serialize_turtle(g)
    ELSE IF format \in {"xml", "rdfxml"} THEN serialize_xml(g)
    ELSE {Raise("ValueError", "Unsupported format: " \o format)}

(***************************************************************************)
(* Graph.query                                                             *)
(***************************************************************************)

\* str.lower for the letters A-Z
lower(s) ==
    Join([i \in 1..Len(s) |->
            Let(Find("ABCDEFGHIJKLMNOPQRSTUVWXYZ", Ch(s, i)), LAMBDA k :
                IF k = 0 THEN Ch(s, i) ELSE Ch("abcdefghijklmnopqrstuvwxyz", k))], "")

\* str.split() of s[lo..]: the maximal runs without whitespace
RECURSIVE SplitFrom(_, _)
SplitFrom(s, lo) ==
    Let(FirstIn(s, Whitespace, FALSE, lo, Len(s)), LAMBDA first :
        IF first = 0 THEN <<>>
        ELSE Let(FirstIn(s, Whitespace, TRUE, first, Len(s)), LAMBDA space :
                IF space = 0 THEN <<SubSeq(s, first, Len(s))>>
                ELSE <<SubSeq(s, first, space - 1)>> \o SplitFrom(s, space)))

\* " ".join(query.lower().split())
normalized(query) == Join(SplitFrom(lower(query), 1), " ")

\* needle in text
HasSubstring(text, needle) ==
    \E i \in 1..(Len(text) - Len(needle) + 1) :
        SubSeq(text, i, i + Len(needle) - 1) = needle

\* sorted(counts.items(), key=lambda item: str(item[0])) for the counts of the
\* terms in keys: the lists of rows the sort can give, each row holding the
\* term under the name column and its count under n
CountRows(keys, Count(_), column) ==
    SortedBy({<<<<Str(k)>>, [c \in {column, "n"} |->
                               IF c = "n" THEN PyInt(Count(k)) ELSE k]>> : k \in keys})

\* list(graph.query(query)): the lists of rows it can give, or the exception
\* raised when the rows are asked for
GraphQuery(g, query) ==
    Let(normalized(query), LAMBDA q :
        IF HasSubstring(q, "select (count(*) as ?n")
        THEN {[t |-> "rows", rows |-> <<[n |-> PyInt(Cardinality(g.triples))]>>]}
        ELSE IF HasSubstring(q, "select ?type (count(?instance) as ?n")
        THEN {[t |-> "rows", rows |-> rows] :
                rows \in CountRows({tr[3] : tr \in {x \in g.triples : x[2] = RDF_type}},
                                   LAMBDA k : Cardinality({x \in g.triples :
                                                x[2] = RDF_type /\ x[3] = k}),
                                   "type")}
        ELSE IF HasSubstring(q, "select ?property (count(?property) as ?n")
        THEN Let({tr[1] : tr \in {x \in g.triples : x[2] = RDF_type}},
                 LAMBDA typed_subjects :
                {[t |-> "rows", rows |-> rows] :
                    rows \in CountRows({tr[2] : tr \in {x \in g.triples :
                                                    x[1] \in typed_subjects}},
                                       LAMBDA k : Cardinality({x \in g.triples :
                                                    x[1] \in typed_subjects /\ x[2] = k}),
                                       "property")})
        ELSE {Raise("NotImplementedError",
                    "SPARQL querying is not supported in this lightweight implementation")})

(***************************************************************************)
(* Field schema (src/src/dartfx/rdf/pydantic/_base.py).  A type annotation *)
(* is a tree:                                                              *)
(*   str, int, URIRef, Person   [o |-> "type", name |-> "str"]             *)
(*   Annotated[X, prop]         [o |-> "Annotated", arg |-> X, meta |-> p] *)
(*   Optional[X]                [o |-> "Union", args |-> <<X, NoneType>>]  *)
(*   list[X]                    [o |-> "list", arg |-> X]                  *)
(***************************************************************************)

Type(name) == [o |-> "type", name |-> name]

NoneType == Type("NoneType")

Annotated(x, prop) == [o |-> "Annotated", arg |-> x, meta |-> prop]

Optional(x) == [o |-> "Union", args |-> <<x, NoneType>>]

List(x) == [o |-> "list", arg |-> x]

\* RdfProperty(predicate, datatype=None, language=None, serializer=None,
\* parser=None)
RdfProperty(predicate, datatype, language) ==
    [t |-> "RdfProperty", predicate |-> predicate, datatype |-> datatype,
     language |-> language, serializer |-> None, parser |-> None]

\* RdfProperty(predicate, serializer=serializer, parser=parser)
RdfPropertyCustom(predicate, serializer, parser) ==
    [t |-> "RdfProperty", predicate |-> predicate, datatype |-> None,
     language |-> None, serializer |-> serializer, parser |-> parser]

\* serialize_date of the module's documentation: d.isoformat(), which a value
\* that is no date does not have
serialize_date(d) ==
    IF d.t = "date" THEN PyStr(isoformat(d))
    ELSE Raise("AttributeError", "object has no attribute 'isoformat'")

\* prop.serializer(value)
CallSerializer(serializer, value) ==
    CASE serializer = PyStr("serialize_date") -> serialize_date(value)
      [] OTHER -> value

\* a declared field: pydantic's FieldInfo (default_factory is None or "list")
FieldInfo(name, annotation, default, default_factory) ==
    [name |-> name, annotation |-> annotation, default |-> default,
     default_factory |-> default_factory]

\* _ensure_uri
ensure_uri(value) == IF value = None THEN None ELSE URIRef(Str(value))

\* RdfProperty.predicate_uri
predicate_uri(prop) == ensure_uri(prop.predicate)

\* RdfProperty.datatype_uri
datatype_uri(prop) == ensure_uri(prop.datatype)

\* _annotation_metadata and _get_rdf_property: the RdfProperty attached to the
\* field, None without one
get_rdf_property(field) ==
    IF field.annotation.o = "Annotated" /\ field.annotation.meta.t = "RdfProperty"
    THEN field.annotation.meta ELSE None

\* _unwrap_annotation
RECURSIVE unwrap_annotation(_)
unwrap_annotation(annotation) ==
    IF annotation.o = "Annotated" THEN unwrap_annotation(annotation.arg)
    ELSE annotation

\* the arguments of a Union other than NoneType
NonNoneArgs(annotation) ==
    SelectSeq(annotation.args, LAMBDA a : a # NoneType)

\* _field_type_info: [is_list, inner_type]
field_type_info(field) ==
    LET a0 == unwrap_annotation(field.annotation)
        a1 == IF a0.o = "Union" /\ Len(NonNoneArgs(a0)) = 1
              THEN unwrap_annotation(NonNoneArgs(a0)[1]) ELSE a0
    IN IF a1.o = "list"
       THEN [is_list |-> TRUE, inner_type |-> unwrap_annotation(a1.arg)]
       ELSE [is_list |-> FALSE, inner_type |-> a1]

(***************************************************************************)
(* The record types of the test suite and of the module's documentation    *)
(***************************************************************************)

SCHEMA == "https://schema.org/"

EX == "https://example.org/"

EX_PERSON == "https://example.org/person/"

EX_ADDRESS == "https://example.org/address/"

DCTERMS == "http://purl.org/dc/terms/"

\* the fields every RdfBaseModel declares
BaseFields ==
    << FieldInfo("rdf_auto_uuid", Type("bool"), PyBool(TRUE), None),
       FieldInfo("rdf_uri_generator", Optional(Type("Callable")), None, None) >>

\* class Address (tests/test_pydantic_rdf.py)
Address ==
    [name |-> "Address",
     rdf_type |-> URIRef(SCHEMA \o "PostalAddress"),
     rdf_namespace |-> PyStr(EX_ADDRESS),
     rdf_id_field |-> PyStr("id"),
     rdf_prefixes |-> [schema |-> SCHEMA, ex |-> EX],
     model_fields |-> BaseFields \o
        << FieldInfo("id", Type("str"), None, None),
           FieldInfo("street",
               Annotated(Type("str"),
                   RdfProperty(URIRef(SCHEMA \o "streetAddress"), None, None)),
               None, None) >>]

\* class Person (tests/test_pydantic_rdf.py)
Person ==
    [name |-> "Person",
     rdf_type |-> URIRef(SCHEMA \o "Person"),
     rdf_namespace |-> PyStr(EX_PERSON),
     rdf_id_field |-> PyStr("id"),
     rdf_prefixes |-> [schema |-> SCHEMA, ex |-> EX],
     model_fields |-> BaseFields \o
        << FieldInfo("id", Type("str"), None, None),
           FieldInfo("name",
               Annotated(Type("str"),
                   RdfProperty(URIRef(SCHEMA \o "name"), None, None)),
               None, None),
           FieldInfo("email",
               Annotated(Optional(Type("str")),
                   RdfProperty(URIRef(SCHEMA \o "email"), None, None)),
               None, None),
           FieldInfo("address",
               Annotated(Optional(Type("Address")),
                   RdfProperty(URIRef(SCHEMA \o "address"), None, None)),
               None, None),
           FieldInfo("knows",
               Annotated(Optional(List(Type("Person"))),
                   RdfProperty(URIRef(SCHEMA \o "knows"), None, None)),
               None, PyStr("list")) >>]

\* class Document (the example of the module's documentation): no rdf_type
Document ==
    [name |-> "Document",
     rdf_type |-> None,
     rdf_namespace |-> PyStr(DCTERMS),
     rdf_id_field |-> PyStr("id"),
     rdf_prefixes |-> [dcterms |-> DCTERMS],
     model_fields |-> BaseFields \o
        << FieldInfo("title",
               Annotated(Optional(List(Type("str"))),
                   RdfProperty(URIRef(DCTERMS \o "title"), None, None)),
               None, None) >>]

\* a record type that keeps every class attribute of RdfBaseModel at its
\* default (no rdf_type, no rdf_namespace, rdf_id_field "id") and declares the
\* identifier field
Plain ==
    [name |-> "Plain",
     rdf_type |-> None,
     rdf_namespace |-> None,
     rdf_id_field |-> PyStr("id"),
     rdf_prefixes |-> EmptyDict,
     model_fields |-> BaseFields \o << FieldInfo("id", Optional(Type("str")), None, None) >>]

\* EX of tests/test_nested_serialization.py
NESTED_EX == "http://example.org/"

\* the fields of a model whose class body sets rdf_auto_uuid = False
NoAutoFields ==
    << FieldInfo("rdf_auto_uuid", Type("bool"), PyBool(FALSE), None),
       FieldInfo("rdf_uri_generator", Optional(Type("Callable")), None, None) >>

\* class NestedAddress(Address) (tests/test_nested_serialization.py), with the
\* fields it inherits
NestedAddress ==
    [name |-> "NestedAddress",
     rdf_type |-> URIRef(NESTED_EX \o "Address"),
     rdf_namespace |-> PyStr(NESTED_EX),
     rdf_id_field |-> PyStr("id"),
     rdf_prefixes |-> EmptyDict,
     model_fields |-> NoAutoFields \o
        << FieldInfo("id", Optional(Type("str")), None, None),
           FieldInfo("city",
               Annotated(Optional(Type("str")),
                   RdfProperty(URIRef(NESTED_EX \o "city"), None, None)),
               None, None),
           FieldInfo("street",
               Annotated(Optional(Type("str")),
                   RdfProperty(URIRef(NESTED_EX \o "street"), None, None)),
               None, None) >>]

\* class NestedPerson(Person) (tests/test_nested_serialization.py), with the
\* fields it inherits
NestedPerson ==
    [name |-> "NestedPerson",
     rdf_type |-> URIRef(NESTED_EX \o "Person"),
     rdf_namespace |-> PyStr(NESTED_EX),
     rdf_id_field |-> PyStr("id"),
     rdf_prefixes |-> EmptyDict,
     model_fields |-> NoAutoFields \o
        << FieldInfo("id", Optional(Type("str")), None, None),
           FieldInfo("name",
               Annotated(Optional(Type("str")),
                   RdfProperty(URIRef(NESTED_EX \o "name"), None, None)),
               None, None),
           FieldInfo("address",
               Annotated(Optional(Type("NestedAddress")),
                   RdfProperty(URIRef(NESTED_EX \o "address"), None, None)),
               None, None) >>]

\* a record type with the birth_date field of the module's documentation,
\* which has a custom serializer and a custom parser, between two plain
\* fields and after a nested record of the same type
Born ==
    [name |-> "Born",
     rdf_type |-> URIRef(SCHEMA \o "Person"),
     rdf_namespace |-> PyStr(EX_PERSON),
     rdf_id_field |-> PyStr("id"),
     rdf_prefixes |-> [schema |-> SCHEMA],
     model_fields |-> BaseFields \o
        << FieldInfo("id", Type("str"), None, None),
           FieldInfo("name",
               Annotated(Optional(Type("str")),
                   RdfProperty(URIRef(SCHEMA \o "name"), None, None)),
               None, None),
           FieldInfo("spouse",
               Annotated(Optional(Type("Born")),
                   RdfProperty(URIRef(SCHEMA \o "spouse"), None, None)),
               None, None),
           FieldInfo("birth_date",
               Annotated(Optional(Type("date")),
                   RdfPropertyCustom(URIRef(SCHEMA \o "birthDate"),
                                     PyStr("serialize_date"), PyStr("parse_date"))),
               None, None),
           FieldInfo("email",
               Annotated(Optional(Type("str")),
                   RdfProperty(URIRef(SCHEMA \o "email"), None, None)),
               None, None) >>]

FOAF == "http://xmlns.com/foaf/0.1/"

XKOS == "http://rdf-vocabulary.ddialliance.org/xkos#"

\* a record type with integer fields that declare no datatype: the age field
\* of the module's documentation without its datatype, and the depth field
\* of ClassificationLevel
Level ==
    [name |-> "Level",
     rdf_type |-> URIRef(XKOS \o "ClassificationLevel"),
     rdf_namespace |-> PyStr(XKOS),
     rdf_id_field |-> PyStr("id"),
     rdf_prefixes |-> [xkos |-> XKOS],
     model_fields |-> BaseFields \o
        << FieldInfo("id", Type("str"), None, None),
           FieldInfo("age",
               Annotated(Optional(Type("int")),
                   RdfProperty(URIRef(FOAF \o "age"), None, None)),
               None, None),
           FieldInfo("depth",
               Annotated(Optional(List(Type("int"))),
                   RdfProperty(URIRef(XKOS \o "depth"), None, None)),
               None, None) >>]

DC == "http://purl.org/dc/elements/1.1/"

\* a record type with the description field of the module's documentation,
\* whose RdfProperty declares a datatype next to its language
Described ==
    [name |-> "Described",
     rdf_type |-> URIRef(SCHEMA \o "Thing"),
     rdf_namespace |-> PyStr(EX),
     rdf_id_field |-> PyStr("id"),
     rdf_prefixes |-> [dc |-> DC],
     model_fields |-> BaseFields \o
        << FieldInfo("id", Type("str"), None, None),
           FieldInfo("name",
               Annotated(Optional(Type("str")),
                   RdfProperty(URIRef(SCHEMA \o "name"), None, None)),
               None, None),
           FieldInfo("description",
               Annotated(Optional(List(Type("str"))),
                   RdfProperty(URIRef(DC \o "description"), XSD_string, PyStr("en"))),
               None, None) >>]

FREQ == "http://purl.org/cld/freq/"

\* class Agent (src/src/dartfx/rdf/pydantic/dcterms.py)
Agent ==
    [name |-> "Agent",
     rdf_type |-> URIRef(DCTERMS \o "Agent"),
     rdf_namespace |-> PyStr(DCTERMS),
     rdf_id_field |-> PyStr("id"),
     rdf_prefixes |-> [dcterms |-> DCTERMS, freq |-> FREQ],
     model_fields |-> BaseFields \o
        << FieldInfo("id", Type("str"), None, None),
           FieldInfo("name",
               Annotated(Optional(Type("str")),
                   RdfProperty(URIRef(DCTERMS \o "name"), None, None)),
               None, None) >>]

\* class DublinCoreRecord (src/src/dartfx/rdf/pydantic/dcterms.py), with its
\* fields id, title and audience; Optional[Union[str, URIRef, Agent]] is the
\* flat Union[str, URIRef, Agent, None]
DublinCoreRecord ==
    [name |-> "DublinCoreRecord",
     rdf_type |-> None,
     rdf_namespace |-> PyStr(DCTERMS),
     rdf_id_field |-> PyStr("id"),
     rdf_prefixes |-> [dcterms |-> DCTERMS, freq |-> FREQ],
     model_fields |-> BaseFields \o
        << FieldInfo("id", Type("str"), None, None),
           FieldInfo("title",
               Annotated(Optional(Type("str")),
                   RdfProperty(URIRef(DCTERMS \o "title"), None, PyStr("en"))),
               None, None),
           FieldInfo("audience",
               Annotated([o |-> "Union",
                          args |-> <<Type("str"), Type("URIRef"), Type("Agent"),
                                     NoneType>>],
                   RdfProperty(URIRef(DCTERMS \o "audience"), None, None)),
               None, None) >>]

ModelClasses ==
    {Address, Person, Document, Plain, NestedAddress, NestedPerson, Born, Level,
     Described, Agent, DublinCoreRecord}

\* the class of a name
Class(name) == CHOOSE c \in ModelClasses : c.name = name

\* _is_rdf_model
is_rdf_model(value) ==
    value.o = "type" /\ value.name \in {c.name : c \in ModelClasses}

\* an introspection that finds no model type
get_rdf_model_type_none(type_hint) == None

\* _get_rdf_model_type: the name of the model type, None without one
get_rdf_model_type(type_hint) ==
    IF is_rdf_model(type_hint) THEN PyStr(type_hint.name)
    ELSE IF type_hint.o = "Union"
            /\ \E i \in DOMAIN type_hint.args : is_rdf_model(type_hint.args[i])
    THEN LET i == CHOOSE i \in DOMAIN type_hint.args :
                    /\ is_rdf_model(type_hint.args[i])
                    /\ \A j \in 1..(i - 1) : ~is_rdf_model(type_hint.args[j])
         IN PyStr(type_hint.args[i].name)
    ELSE None

\* an attribute read that finds auto-generated identifiers switched on
GetAttr_auto(self, name) ==
    IF name = "rdf_auto_uuid" THEN PyBool(TRUE)
    ELSE IF name \in DOMAIN self.v THEN self.v[name] ELSE None

\* getattr(self, name, None)
GetAttr(self, name) == IF name \in DOMAIN self.v THEN self.v[name] ELSE None

\* RdfBaseModel._namespace_string
namespace_string(cls) ==
    IF cls.rdf_namespace = None THEN None ELSE PyStr(Str(cls.rdf_namespace))

(***************************************************************************)
(* Node identity                                                           *)
(***************************************************************************)

\* the characters URI_PATTERN allows after the first one
SchemeChars == Letters \cup Digits \cup {"+", ".", "-"}

\* a test that finds no scheme in any text
looks_like_uri_never(value) == FALSE

\* _looks_like_uri: URI_PATTERN = ^[a-zA-Z][a-zA-Z0-9+.-]*:
looks_like_uri(value) ==
    LET stop == FirstIn(value, SchemeChars, FALSE, 1, Len(value))
    IN /\ stop > 1
       /\ Ch(value, 1) \in Letters
       /\ Ch(value, stop) = ":"

\* a normalisation that appends "/" whatever the base ends in
normalise_base_slash(base_uri) == base_uri \o "/"

\* _normalise_base
normalise_base(base_uri) ==
    IF EndsWith(base_uri, "/") \/ EndsWith(base_uri, "#") THEN base_uri
    ELSE base_uri \o "/"

\* str(uuid.uuid4()): the n-th token drawn; tokens drawn at different times
\* differ
Uuid4(n) == "00000000-0000-4000-8000-00000000000" \o IntStr(n)

\* The identity functions of the model, Callable[[Any], Union[URIRef, BNode]]:
\* one that returns the URIRef EX[f"{type(obj).__name__}/{obj.id}"] (what
\* custom_uri_generator of tests/test_pydantic_rdf.py sets out to build; the
\* test never calls it, its record has an id), one that returns a BNode and
\* one that returns None.
Generators == {"uri_generator", "bnode_generator", "none_generator"}

\* generator(self), given the count n of fresh identities drawn so far
CallGenerator(generator, self, n) ==
    CASE generator = PyStr("uri_generator") ->
            URIRef(EX \o self.cls \o "/" \o Str(GetAttr(self, "id")))
      [] generator = PyStr("bnode_generator") -> BNode(n + 1)
      [] OTHER -> None

\* a choice that lets the instance's identity function win
ChosenGenerator_instance(self, rdf_uri_generator) ==
    IF GetAttr(self, "rdf_uri_generator") # None
    THEN GetAttr(self, "rdf_uri_generator") ELSE rdf_uri_generator

\* the identity function _subject_uri calls: the per-call one unless it is
\* None, then the instance's
ChosenGenerator(self, rdf_uri_generator) ==
    IF rdf_uri_generator # None THEN rdf_uri_generator
    ELSE GetAttr(self, "rdf_uri_generator")

\* a resolution that skips the identifier and draws a fresh token at each call
subject_uri_fresh(self, base_uri, rdf_uri_generator, n) ==
    [subject |-> URIRef("urn:uuid:" \o Uuid4(n + 1)), step |-> "uuid",
     invoked |-> None, fresh |-> n + 1]

\* RdfBaseModel._subject_uri: the subject, with the step that decided it, the
\* identity function it invoked (None if none) and the count of fresh
\* identities drawn
subject_uri(self, base_uri, rdf_uri_generator, n) ==
    LET cls == Class(self.cls)
        value == IF Truthy(cls.rdf_id_field)
                 THEN GetAttr(self, cls.rdf_id_field.s) ELSE None
        identifier == IF value # None THEN PyStr(Str(value)) ELSE None
        namespace == namespace_string(cls)
        generator == ChosenGenerator(self, rdf_uri_generator)
        generated == IF generator # None THEN CallGenerator(generator, self, n)
                     ELSE None
        Out(subject, step, invoked, drawn) ==
            [subject |-> subject, step |-> step, invoked |-> invoked,
             fresh |-> n + drawn]
    IN IF Truthy(identifier) THEN
            IF looks_like_uri(identifier.s)
            THEN Out(URIRef(identifier.s), "identifier", None, 0)
            ELSE IF Truthy(namespace)
            THEN Out(URIRef(namespace.s \o identifier.s), "identifier", None, 0)
            ELSE IF Truthy(base_uri)
            THEN Out(URIRef(normalise_base(base_uri.s) \o identifier.s),
                     "identifier", None, 0)
            ELSE Out(URIRef(identifier.s), "identifier", None, 0)
       ELSE IF generator # None /\ generated # None
       THEN Out(generated, "generator", generator,
                IF generated.t = "BNode" THEN 1 ELSE 0)
       ELSE IF ~Truthy(GetAttr(self, "rdf_auto_uuid"))
       THEN Out(BNode(n + 1), "bnode", generator, 1)
       ELSE IF Truthy(namespace)
       THEN Out(URIRef(namespace.s \o Uuid4(n + 1)), "uuid", generator, 1)
       ELSE Out(URIRef("urn:uuid:" \o Uuid4(n + 1)), "uuid", generator, 1)

(***************************************************************************)
(* Serialize: record -> triples                                            *)
(***************************************************************************)

\* dict.update
DictUpdate(d, e) ==
    [x \in (DOMAIN d) \cup (DOMAIN e) |-> IF x \in DOMAIN e THEN e[x] ELSE d[x]]

\* _default_prefixes
default_prefixes == [rdf |-> RDF, xsd |-> XSD]

\* RdfBaseModel._bind_prefixes: the type's prefixes over the defaults, each
\* bound on the graph
bind_prefixes(self, g) ==
    [g EXCEPT !.namespaces =
        DictUpdate(g.namespaces,
                   DictUpdate(default_prefixes, Class(self.cls).rdf_prefixes))]

\* _python_datatype that knows no datatype for an int
python_datatype_untyped(value) ==
    CASE value.t = "bool" -> XSD_boolean
      [] value.t = "date" -> XSD_date
      [] OTHER -> None

\* _python_datatype
python_datatype(value) ==
    CASE value.t = "bool" -> XSD_boolean
      [] value.t = "int" -> XSD_integer
      [] value.t = "date" -> XSD_date
      [] OTHER -> None

\* the branches of _value_to_node with the datatype tested before the language
PlainValueToNode_datatype_first(value, expected_type, prop) ==
    IF value.t = "URIRef" THEN value
    ELSE IF value.t = "Literal" THEN value
    ELSE IF value.t \in {"int", "bool", "date"} THEN
        Literal(value,
                IF datatype_uri(prop) = None THEN python_datatype(value)
                ELSE datatype_uri(prop),
                None)
    ELSE IF value.t = "str" THEN
        IF datatype_uri(prop) # None THEN Literal(value, datatype_uri(prop), None)
        ELSE IF Truthy(prop.language) THEN Literal(value, None, prop.language)
        ELSE IF expected_type = Type("URIRef") /\ looks_like_uri(value.s)
        THEN URIRef(value.s)
        ELSE Literal(value, None, None)
    ELSE Literal(value, None, None)

\* the branches of _value_to_node for a value that is no model instance
PlainValueToNode(value, expected_type, prop) ==
    IF value.t = "URIRef" THEN value
    ELSE IF value.t = "Literal" THEN value
    ELSE IF value.t \in {"int", "bool", "date"} THEN
        Literal(value,
                IF datatype_uri(prop) = None THEN python_datatype(value)
                ELSE datatype_uri(prop),
                None)
    ELSE IF value.t = "str" THEN
        IF Truthy(prop.language) THEN Literal(value, None, prop.language)
        ELSE IF datatype_uri(prop) # None THEN Literal(value, datatype_uri(prop), None)
        ELSE IF expected_type = Type("URIRef") /\ looks_like_uri(value.s)
        THEN URIRef(value.s)
        ELSE Literal(value, None, None)
    ELSE Literal(value, None, None)

RECURSIVE serialise_into_graph(_, _, _, _, _)

\* RdfBaseModel._value_to_node: [node, graph, fresh, exc]; the custom
\* serializer is applied first; a nested record is serialized into the graph
\* and its subject is the node; exc is the exception raised, None without one
value_to_node(value0, expected_type, prop, g, base_uri, rdf_uri_generator, n) ==
    Let(IF prop.serializer # None THEN CallSerializer(prop.serializer, value0)
        ELSE value0, LAMBDA value :
    IF IsRaise(value)
    THEN [node |-> None, graph |-> g, fresh |-> n, exc |-> value]
    ELSE IF value.t = "model" THEN
        Let(serialise_into_graph(value, g, base_uri, rdf_uri_generator, n),
            LAMBDA nested :
                [node |-> nested.subject, graph |-> nested.graph,
                 fresh |-> nested.fresh, exc |-> nested.exc])
    ELSE [node |-> PlainValueToNode(value, expected_type, prop), graph |-> g,
          fresh |-> n, exc |-> None])

\* the loop over the items of one field without "if item is None: continue"
RECURSIVE SerialiseItems_keep(_, _, _, _, _, _, _)
SerialiseItems_keep(values, subject, field, st, base_uri, rdf_uri_generator, i) ==
    IF i > Len(values) \/ st.exc # None THEN st
    ELSE Let(get_rdf_property(field), LAMBDA prop :
         Let(value_to_node(values[i], field_type_info(field).inner_type, prop,
                           st.graph, base_uri, rdf_uri_generator, st.fresh), LAMBDA r :
         Let(IF r.exc # None
             THEN [graph |-> r.graph, fresh |-> r.fresh, exc |-> r.exc]
             ELSE [graph |-> GraphAdd(r.graph, <<subject, predicate_uri(prop), r.node>>),
                   fresh |-> r.fresh, exc |-> None], LAMBDA next :
            SerialiseItems_keep(values, subject, field, next, base_uri,
                                rdf_uri_generator, i + 1))))

\* the loop over the items of one field: st is [graph, fresh, exc], and an
\* exception ends the loop with the graph as it is
RECURSIVE SerialiseItems(_, _, _, _, _, _, _)
SerialiseItems(values, subject, field, st, base_uri, rdf_uri_generator, i) ==
    IF i > Len(values) \/ st.exc # None THEN st
    ELSE IF values[i] = None
    THEN SerialiseItems(values, subject, field, st, base_uri, rdf_uri_generator, i + 1)
    ELSE Let(get_rdf_property(field), LAMBDA prop :
         Let(value_to_node(values[i], field_type_info(field).inner_type, prop,
                           st.graph, base_uri, rdf_uri_generator, st.fresh), LAMBDA r :
         Let(IF r.exc # None
             THEN [graph |-> r.graph, fresh |-> r.fresh, exc |-> r.exc]
             ELSE [graph |-> GraphAdd(r.graph, <<subject, predicate_uri(prop), r.node>>),
                   fresh |-> r.fresh, exc |-> None], LAMBDA next :
            SerialiseItems(values, subject, field, next, base_uri,
                           rdf_uri_generator, i + 1))))

\* the loop over model_fields
RECURSIVE SerialiseFields(_, _, _, _, _, _)
SerialiseFields(self, subject, st, base_uri, rdf_uri_generator, i) ==
    IF i > Len(Class(self.cls).model_fields) \/ st.exc # None THEN st
    ELSE Let(Class(self.cls).model_fields[i], LAMBDA field :
         Let(GetAttr(self, field.name), LAMBDA value :
            IF get_rdf_property(field) = None \/ value = None
            THEN SerialiseFields(self, subject, st, base_uri, rdf_uri_generator, i + 1)
            ELSE Let(IF field_type_info(field).is_list THEN value.items
                     ELSE <<value>>, LAMBDA values :
                 Let(SerialiseItems(values, subject, field, st, base_uri,
                                    rdf_uri_generator, 1), LAMBDA next :
                    SerialiseFields(self, subject, next, base_uri,
                                    rdf_uri_generator, i + 1)))))

\* RdfBaseModel._serialise_into_graph: [subject, graph, fresh, exc]
serialise_into_graph(self0, g, base_uri, rdf_uri_generator, n) ==
    Let(self0, LAMBDA self :
    Let(subject_uri(self, base_uri, rdf_uri_generator, n), LAMBDA id :
    Let(bind_prefixes(self, g), LAMBDA bound :
    Let(ensure_uri(Class(self.cls).rdf_type), LAMBDA rdf_type_uri :
    Let(IF rdf_type_uri # None
        THEN GraphAdd(bound, <<id.subject, RDF_type, rdf_type_uri>>)
        ELSE bound, LAMBDA typed :
    Let(SerialiseFields(self, id.subject,
                        [graph |-> typed, fresh |-> id.fresh, exc |-> None],
                        base_uri, rdf_uri_generator, 1), LAMBDA st :
        [subject |-> id.subject, graph |-> st.graph, fresh |-> st.fresh,
         exc |-> st.exc]))))))

\* RdfBaseModel.to_rdf_graph
to_rdf_graph(self, g, base_uri, rdf_uri_generator, n) ==
    serialise_into_graph(self, g, base_uri, rdf_uri_generator, n)

(***************************************************************************)
(* Deserialize: triples -> record                                          *)
(***************************************************************************)

\* int(s) for a str: [ok, n]
ParseInt(s0) ==
    LET s == Strip(s0)
        neg == StartsWith(s, "-")
        body == IF neg \/ StartsWith(s, "+") THEN From(s, 2) ELSE s
        digits == [i \in 1..Len(body) |-> Ord(Ch(body, i)) - Ord("0")]
        Value[i \in 0..Len(body)] ==
            IF i = 0 THEN 0 ELSE 10 * Value[i - 1] + digits[i]
    IN IF body = "" \/ FirstIn(body, Digits, FALSE, 1, Len(body)) > 0
       THEN [ok |-> FALSE, n |-> 0]
       ELSE [ok |-> TRUE, n |-> IF neg THEN 0 - Value[Len(body)] ELSE Value[Len(body)]]

\* int(value), value itself when int() raises
IntOrRaw(value) ==
    IF value.t = "int" THEN value
    ELSE IF value.t = "bool" THEN PyInt(IF value.b THEN 1 ELSE 0)
    ELSE IF value.t = "float"
    THEN PyInt(IF value.neg THEN 0 - value.whole ELSE value.whole)
    ELSE IF IsStr(value)
    THEN Let(ParseInt(value.s), LAMBDA r : IF r.ok THEN PyInt(r.n) ELSE value)
    ELSE value

\* s is a non-empty text of decimal digits
IsDigits(s) == s # "" /\ FirstIn(s, Digits, FALSE, 1, Len(s)) = 0

\* the days of a month
DaysIn(year, month) ==
    IF month = 2
    THEN IF year % 4 = 0 /\ (year % 100 # 0 \/ year % 400 = 0) THEN 29 ELSE 28
    ELSE IF month \in {4, 6, 9, 11} THEN 30 ELSE 31

\* int(s[lo - 1:hi]) for a text of decimal digits, -1 for any other text
Field(s, lo, hi) ==
    Let(SubSeq(s, lo, hi), LAMBDA text :
        IF IsDigits(text) THEN ParseInt(text).n ELSE 0 - 1)

\* date.fromisoformat for the format YYYY-MM-DD: [ok, v]; ok is FALSE where
\* Python raises ValueError
DateOf(s) ==
    IF Len(s) = 10 /\ Ch(s, 5) = "-" /\ Ch(s, 8) = "-"
    THEN Let(Field(s, 1, 4), LAMBDA y :
         Let(Field(s, 6, 7), LAMBDA m :
         Let(Field(s, 9, 10), LAMBDA d :
            IF y >= 1 /\ m \in 1..12 /\ d >= 1 /\ d <= DaysIn(y, m)
            THEN [ok |-> TRUE, v |-> PyDate(y, m, d)]
            ELSE [ok |-> FALSE, v |-> None])))
    ELSE [ok |-> FALSE, v |-> None]

\* datetime.fromisoformat for the formats YYYY-MM-DD and
\* YYYY-MM-DD?HH:MM:SS (? is any one character): [ok, v]
DateTimeOf(s) ==
    IF Len(s) \in {10, 19}
    THEN Let(DateOf(SubSeq(s, 1, 10)), LAMBDA d :
            IF ~d.ok THEN d
            ELSE IF Len(s) = 10 THEN [ok |-> TRUE, v |-> PyDateTime(d.v, 0, 0, 0)]
            ELSE IF Ch(s, 14) = ":" /\ Ch(s, 17) = ":"
            THEN Let(Field(s, 12, 13), LAMBDA hour :
                 Let(Field(s, 15, 16), LAMBDA minute :
                 Let(Field(s, 18, 19), LAMBDA second :
                    IF hour \in 0..23 /\ minute \in 0..59 /\ second \in 0..59
                    THEN [ok |-> TRUE, v |-> PyDateTime(d.v, hour, minute, second)]
                    ELSE [ok |-> FALSE, v |-> None])))
            ELSE [ok |-> FALSE, v |-> None])
    ELSE [ok |-> FALSE, v |-> None]

\* the reading of a decimal numeral, sign, digits and at most one point:
\* [ok, neg, whole, frac]; exponents, "inf" and "nan" are not read
NumberOf(s0) ==
    Let(Strip(s0), LAMBDA s :
    Let(StartsWith(s, "-"), LAMBDA neg :
    Let(IF neg \/ StartsWith(s, "+") THEN From(s, 2) ELSE s, LAMBDA body :
    Let(Find(body, "."), LAMBDA point :
    Let(IF point = 0 THEN body ELSE SubSeq(body, 1, point - 1), LAMBDA whole :
    Let(IF point = 0 THEN "" ELSE From(body, point + 1), LAMBDA frac :
        IF /\ whole \o frac # ""
           /\ (whole = "" \/ IsDigits(whole))
           /\ (frac = "" \/ IsDigits(frac))
        THEN [ok |-> TRUE, neg |-> neg, whole |-> Field("0" \o whole, 1, Len(whole) + 1),
              frac |-> frac]
        ELSE [ok |-> FALSE, neg |-> FALSE, whole |-> 0, frac |-> ""]))))))

\* frac without its trailing zeros
RECURSIVE TrimZeros(_)
TrimZeros(frac) ==
    IF frac # "" /\ Ch(frac, Len(frac)) = "0"
    THEN TrimZeros(SubSeq(frac, 1, Len(frac) - 1)) ELSE frac

\* float(value), value itself when float() raises
FloatOrRaw(value) ==
    IF value.t = "float" THEN value
    ELSE IF value.t = "int" THEN PyFloat(value.n < 0, IF value.n < 0 THEN 0 - value.n ELSE value.n, "")
    ELSE IF value.t = "bool" THEN PyFloat(FALSE, IF value.b THEN 1 ELSE 0, "")
    ELSE IF IsStr(value)
    THEN Let(NumberOf(value.s), LAMBDA r :
            IF r.ok THEN PyFloat(r.neg, r.whole, TrimZeros(r.frac)) ELSE value)
    ELSE value

\* Decimal(value), value itself when Decimal() raises
DecimalOrRaw(value) ==
    IF value.t = "Decimal" THEN value
    ELSE IF value.t = "int" THEN PyDecimal(value.n < 0, IF value.n < 0 THEN 0 - value.n ELSE value.n, "")
    ELSE IF value.t = "bool" THEN PyDecimal(FALSE, IF value.b THEN 1 ELSE 0, "")
    ELSE IF value.t = "float" THEN [t |-> "Decimal", exact |-> value]
    ELSE IF IsStr(value)
    THEN Let(NumberOf(value.s), LAMBDA r :
            IF r.ok THEN PyDecimal(r.neg, r.whole, r.frac) ELSE value)
    ELSE value

\* datetime.fromisoformat(str(value)), value itself when it raises
DateTimeOrRaw(value) ==
    IF value.t = "datetime" THEN value
    ELSE Let(DateTimeOf(Str(value)), LAMBDA r : IF r.ok THEN r.v ELSE value)

\* date.fromisoformat(str(value)), value itself when it raises; a datetime is
\* a date
DateOrRaw(value) ==
    IF value.t \in {"date", "datetime"} THEN value
    ELSE Let(DateOf(Str(value)), LAMBDA r : IF r.ok THEN r.v ELSE value)

\* Literal.toPython, for the datatypes boolean, integer, decimal, dateTime and
\* date
toPython(literal) ==
    Let(IF literal.datatype = None THEN "" ELSE Str(literal.datatype), LAMBDA datatype :
        IF datatype = XSD_boolean.s THEN
            IF literal.value.t = "bool" THEN literal.value
            ELSE PyBool(Str(literal.value) \in {"true", "True", "TRUE", "1"})
        ELSE IF datatype = XSD_integer.s THEN IntOrRaw(literal.value)
        ELSE IF datatype = XSD_decimal.s THEN FloatOrRaw(literal.value)
        ELSE IF datatype = XSD_dateTime.s /\ IsStr(literal.value)
        THEN Let(DateTimeOf(literal.value.s), LAMBDA r :
                IF r.ok THEN r.v ELSE literal.value)
        ELSE IF datatype = XSD_date.s /\ IsStr(literal.value)
        THEN Let(DateOf(literal.value.s), LAMBDA r :
                IF r.ok THEN r.v ELSE literal.value)
        ELSE literal.value)

\* class DcmiFrequency(str, Enum): the values of its members
DcmiFrequency ==
    {"http://purl.org/cld/freq/" \o name :
        name \in {"annual", "biennial", "bimonthly", "biweekly", "continuous",
                  "daily", "irregular", "monthly", "quarterly", "semiannual",
                  "semimonthly", "semiweekly", "threeTimesAMonth",
                  "threeTimesAWeek", "triennial", "weekly"}}

\* parse_date of the module's documentation: date.fromisoformat(str(node))
parse_date(node) ==
    Let(DateOf(Str(node)), LAMBDA r :
        IF r.ok THEN r.v ELSE Raise("ValueError", "Invalid isoformat string"))

\* prop.parser(node)
CallParser(parser, node) ==
    CASE parser = PyStr("parse_date") -> parse_date(node)
      [] OTHER -> node

\* expected_type(value) for the Enum DcmiFrequency
DcmiFrequencyOf(value) ==
    IF IsStr(value) /\ value.s \in DcmiFrequency
    THEN [t |-> "DcmiFrequency", value |-> value.s]
    ELSE Raise("ValueError", Repr(value) \o " is not a valid DcmiFrequency")

\* _node_to_python without its check for a nested record type
node_to_python_lenient(node, expected_type, prop) ==
    IF node.t = "Literal" THEN toPython(node) ELSE PyStr(Str(node))

\* _node_to_python: the value or the exception raised
node_to_python(node, expected_type, prop) ==
    IF prop.parser # None THEN CallParser(prop.parser, node)
    ELSE IF is_rdf_model(expected_type)
    THEN Raise("TypeError", "Nested RDF models should be handled separately.")
    ELSE IF expected_type = Type("URIRef") THEN
        IF node.t = "URIRef" THEN node ELSE URIRef(Str(node))
    ELSE Let(IF node.t = "Literal" THEN toPython(node) ELSE PyStr(Str(node)),
             LAMBDA value :
                CASE expected_type = Type("str") -> PyStr(Str(value))
                  [] expected_type = Type("int") -> IntOrRaw(value)
                  [] expected_type = Type("float") -> FloatOrRaw(value)
                  [] expected_type = Type("bool") -> PyBool(Truthy(value))
                  [] expected_type = Type("datetime") -> DateTimeOrRaw(value)
                  [] expected_type = Type("date") -> DateOrRaw(value)
                  [] expected_type = Type("Decimal") -> DecimalOrRaw(value)
                  [] expected_type = Type("DcmiFrequency") -> DcmiFrequencyOf(value)
                  [] OTHER -> value)

\* an extraction that tries the supplied base before the namespace
identifier_from_subject_base_first(cls, subject, base_uri) ==
    LET subject_str == Str(subject)
        namespace == namespace_string(cls)
    IN IF Truthy(base_uri) /\ StartsWith(subject_str, normalise_base(base_uri.s))
       THEN PyStr(From(subject_str, Len(normalise_base(base_uri.s)) + 1))
       ELSE IF Truthy(namespace) /\ StartsWith(subject_str, namespace.s)
       THEN PyStr(From(subject_str, Len(namespace.s) + 1))
       ELSE PyStr(subject_str)

\* RdfBaseModel._identifier_from_subject
identifier_from_subject(cls, subject, base_uri) ==
    LET subject_str == Str(subject)
        namespace == namespace_string(cls)
    IN IF Truthy(namespace) /\ StartsWith(subject_str, namespace.s)
       THEN PyStr(From(subject_str, Len(namespace.s) + 1))
       ELSE IF Truthy(base_uri) /\ StartsWith(subject_str, normalise_base(base_uri.s))
       THEN PyStr(From(subject_str, Len(normalise_base(base_uri.s)) + 1))
       ELSE PyStr(subject_str)

\* cls(**values): every declared field takes its value, else its default
Construct(cls, values) ==
    [t |-> "model", cls |-> cls.name,
     v |-> [name \in {cls.model_fields[i].name : i \in DOMAIN cls.model_fields} |->
              IF name \in DOMAIN values THEN values[name]
              ELSE LET field == CHOOSE f \in {cls.model_fields[i] :
                                      i \in DOMAIN cls.model_fields} : f.name = name
                   IN IF field.default_factory = PyStr("list") THEN PyList(<<>>)
                      ELSE field.default]]

\* the first exception of a list of results, None without one
RECURSIVE FirstRaise(_)
FirstRaise(items) ==
    IF Len(items) = 0 THEN None
    ELSE IF IsRaise(Head(items)) THEN Head(items)
    ELSE FirstRaise(Tail(items))

\* the lists that take their i-th element from choices[i]
RECURSIVE Product(_)
Product(choices) ==
    IF Len(choices) = 0 THEN {<<>>}
    ELSE {<<x>> \o r : x \in Head(choices), r \in Product(Tail(choices))}

RECURSIVE from_rdf_graph(_, _, _, _)

\* the body of the loop with "values[name] = items[0]" for every field
FieldValues_first(field, g, subject_uri_, base_uri) ==
    LET prop == get_rdf_property(field)
        info == field_type_info(field)
        objects == GraphObjects(g, subject_uri_, predicate_uri(prop))
        model_type == get_rdf_model_type(info.inner_type)
        Item(obj) ==
            IF model_type # None /\ obj.t \in {"URIRef", "BNode"}
            THEN from_rdf_graph(Class(model_type.s), g, obj, base_uri)
            ELSE {node_to_python(obj, info.inner_type, prop)}
    IN IF objects = {} THEN {[t |-> "unset"]}
       ELSE {IF FirstRaise(items) # None THEN FirstRaise(items) ELSE items[1] :
                items \in UNION {Product([i \in 1..Len(order) |-> Item(order[i])]) :
                                    order \in IterOrders(objects)}}

\* the body of the loop of from_rdf_graph for one field: the values the field
\* can take ([t |-> "unset"] when the graph holds no object for it) and the
\* exceptions raised, over the orders in which Graph.objects can yield
FieldValues(field, g, subject_uri_, base_uri) ==
    LET prop == get_rdf_property(field)
        info == field_type_info(field)
        objects == GraphObjects(g, subject_uri_, predicate_uri(prop))
        model_type == get_rdf_model_type(info.inner_type)
        Item(obj) ==
            IF model_type # None /\ obj.t \in {"URIRef", "BNode"}
            THEN from_rdf_graph(Class(model_type.s), g, obj, base_uri)
            ELSE {node_to_python(obj, info.inner_type, prop)}
    IN IF objects = {} THEN {[t |-> "unset"]}
       ELSE {IF FirstRaise(items) # None THEN FirstRaise(items)
             ELSE IF info.is_list THEN PyList(items) ELSE items[1] :
                items \in UNION {Product([i \in 1..Len(order) |-> Item(order[i])]) :
                                    order \in IterOrders(objects)}}

\* the loop over model_fields: the dicts of values it can build, and the
\* exceptions raised
RECURSIVE FieldLoop(_, _, _, _, _, _)
FieldLoop(cls, g, subject_uri_, base_uri, values, i) ==
    IF i > Len(cls.model_fields) THEN {[t |-> "dict", d |-> values]}
    ELSE Let(cls.model_fields[i], LAMBDA field :
         IF get_rdf_property(field) = None
         THEN FieldLoop(cls, g, subject_uri_, base_uri, values, i + 1)
         ELSE UNION {IF IsRaise(x) THEN {x}
                     ELSE IF x = [t |-> "unset"]
                     THEN FieldLoop(cls, g, subject_uri_, base_uri, values, i + 1)
                     ELSE Let(DictSet(values, field.name, x), LAMBDA next :
                            FieldLoop(cls, g, subject_uri_, base_uri, next, i + 1)) :
                        x \in FieldValues(field, g, subject_uri_, base_uri)})

\* RdfBaseModel.from_rdf_graph: the records it can return and the exceptions it
\* can raise
from_rdf_graph(cls0, g0, subject, base_uri) ==
    Let(<<cls0, g0, ensure_uri(subject)>>, LAMBDA a :
    Let(a[1], LAMBDA cls : Let(a[3], LAMBDA subject_uri_ :
        {IF IsRaise(x) THEN x
         ELSE Construct(cls,
                IF Truthy(cls.rdf_id_field) /\ cls.rdf_id_field.s \notin DOMAIN x.d
                THEN DictSet(x.d, cls.rdf_id_field.s,
                             identifier_from_subject(cls, subject_uri_, base_uri))
                ELSE x.d) :
            x \in FieldLoop(cls, a[2], subject_uri_, base_uri, EmptyDict, 1)})))

\* a list kept as it comes, duplicates included
unique_keep(values) == values

\* _unique
RECURSIVE unique(_)
unique(values0) ==
    Let(values0, LAMBDA values :
        IF Len(values) = 0 THEN <<>>
        ELSE Let(unique(SubSeq(values, 1, Len(values) - 1)), LAMBDA seen :
                IF \E i \in DOMAIN seen : seen[i] = values[Len(values)] THEN seen
                ELSE Append(seen, values[Len(values)])))

\* an inference that settles for the first candidate
infer_subject_first(cls, yielded) ==
    IF Len(unique(yielded)) = 0 THEN None ELSE unique(yielded)[1]

\* RdfBaseModel._infer_subject, given the list yielded by Graph.subjects for
\* the type's rdf:type triples (for all triples when the type declares none):
\* the subject, None, or the exception raised
infer_subject(cls, yielded) ==
    Let(unique(yielded), LAMBDA subjects :
        IF ensure_uri(cls.rdf_type) # None THEN
            IF Len(subjects) = 0 THEN None
            ELSE IF Len(subjects) > 1
            THEN Raise("ValueError", "Multiple resources of the requested rdf:type were found; provide the subject explicitly.")
            ELSE subjects[1]
        ELSE IF Len(subjects) = 0 THEN None
        ELSE IF Len(subjects) > 1
        THEN Raise("ValueError", "Multiple resources found in graph; provide the subject explicitly.")
        ELSE subjects[1])

\* the triples Graph.subjects walks in _infer_subject
InferTriples(cls, g) ==
    IF ensure_uri(cls.rdf_type) # None
    THEN {tr \in g.triples : tr[2] = RDF_type /\ tr[3] = ensure_uri(cls.rdf_type)}
    ELSE g.triples

\* RdfBaseModel.from_rdf: the records it can return and the exceptions it can
\* raise; subject is None when the caller gives none
from_rdf(cls, data, format, subject, base_uri) ==
    Let(GraphParse(NewGraph, data, format), LAMBDA parsed :
        IF parsed.exc # None THEN {parsed.exc}
        ELSE UNION {
            Let(IF subject = None
                THEN infer_subject(cls, [i \in 1..Len(order) |-> order[i][1]])
                ELSE subject, LAMBDA inferred :
                IF IsRaise(inferred) THEN {inferred}
                ELSE IF inferred = None
                THEN {Raise("ValueError", "Unable to determine subject for RDF document; provide the subject explicitly.")}
                ELSE from_rdf_graph(cls, parsed.graph, inferred, base_uri)) :
                  order \in IF subject = None
                            THEN IterOrders(InferTriples(cls, parsed.graph))
                            ELSE {<<>>}})

(***************************************************************************)
(* The triple store and its text codec as a state machine                  *)
(***************************************************************************)

\* the most triples a store of this specification holds
MaxTriples == 2

StoreSubjects == {URIRef(EX_PERSON \o "1")}

StorePredicates == {RDF_type, URIRef(SCHEMA \o "name")}

StoreObjects ==
    {URIRef(SCHEMA \o "Person"),
     Literal(PyStr("Ada"), None, None),
     Literal(PyStr("Ada"), None, PyStr("en")),
     Literal(PyStr("7"), XSD_integer, None),
     Literal(PyStr("a\"b"), None, None)}

StoreTriples == StoreSubjects \X StorePredicates \X StoreObjects

\* the bindings offered to Graph.bind; the base of ex is a strict textual
\* prefix of the base of person
StoreBindings == {<<"ex", EX>>, <<"person", EX_PERSON>>}

Init ==
    /\ graph = NewGraph
    /\ rec = None
    /\ op = "init"
    /\ arg = None
    /\ res = None
    /\ hist = <<>>
    /\ fresh = 0

\* graph.add(triple)
Add(triple) ==
    /\ Cardinality(graph.triples \cup {triple}) <= MaxTriples
    /\ graph' = GraphAdd(graph, triple)
    /\ op' = "add"
    /\ arg' = [triple |-> triple, before |-> graph]
    /\ res' = None
    /\ UNCHANGED <<rec, hist, fresh>>

\* triple in graph
ContainsOp(triple) ==
    /\ op' = "contains"
    /\ arg' = [triple |-> triple]
    /\ res' = PyBool(GraphContains(graph, triple))
    /\ UNCHANGED <<graph, rec, hist, fresh>>

\* graph.bind(prefix, namespace)
Bind(prefix, namespace) ==
    /\ graph' = GraphBind(graph, prefix, namespace)
    /\ op' = "bind"
    /\ arg' = [prefix |-> prefix, namespace |-> namespace, before |-> graph]
    /\ res' = None
    /\ UNCHANGED <<rec, hist, fresh>>

\* graph.serialize(format="turtle")
Serialize ==
    /\ \E text \in GraphSerialize(graph, "turtle") :
            res' = PyStr(text)
    /\ op' = "serialize"
    /\ arg' = None
    /\ UNCHANGED <<graph, rec, hist, fresh>>

\* Graph().parse(data=graph.serialize(format="turtle"), format="turtle"):
\* res is the parsed store and the exception raised, if any
Reparse ==
    /\ \E text \in GraphSerialize(graph, "turtle") :
            /\ arg' = PyStr(text)
            /\ res' = GraphParse(NewGraph, text, "turtle")
    /\ op' = "reparse"
    /\ UNCHANGED <<graph, rec, hist, fresh>>

Next ==
    \/ \E triple \in StoreTriples : Add(triple)
    \/ \E triple \in StoreTriples : ContainsOp(triple)
    \/ \E b \in StoreBindings : Bind(b[1], b[2])
    \/ Serialize
    \/ Reparse

Spec == Init /\ [][Next]_vars

(***************************************************************************)
(* Properties of the store and its codec                                   *)
(***************************************************************************)

\* C2: idempotent add. After add(t) the store contains t, a contains(t) that
\* follows add(t) answers true, and an add(t) that follows add(t) leaves the
\* triple set and its cardinality unchanged.
C2_IdempotentAdd ==
    [][/\ op' = "add" => GraphContains(graph', arg'.triple)
       /\ (op = "add" /\ op' = "contains" /\ arg'.triple = arg.triple)
            => res' = PyBool(TRUE)
       /\ (op = "add" /\ op' = "add" /\ arg'.triple = arg.triple)
            => /\ graph'.triples = graph.triples
               /\ Cardinality(graph'.triples) = Cardinality(graph.triples)]_vars

\* C2: a triple already in the store has been added again
C2_Witness ==
    /\ op = "add"
    /\ arg.triple \in arg.before.triples
    /\ arg.before.triples # {}

\* s is a strict textual prefix of u
StrictPrefix(s, u) == Len(s) < Len(u) /\ StartsWith(u, s)

\* no bound base is a strict textual prefix of another
NonOverlapping(g) ==
    \A p, q \in DOMAIN g.namespaces :
        ~StrictPrefix(g.namespaces[p], g.namespaces[q])

\* C3: line-notation round trip. For a store whose bound prefixes do not
\* overlap, parsing the text of the line-notation serializer into an empty
\* store raises nothing and yields the same triples and the same prefix table.
C3_LineRoundTrip ==
    (op = "reparse" /\ NonOverlapping(graph))
        => /\ res.exc = None
           /\ res.graph.triples = graph.triples
           /\ res.graph.namespaces = graph.namespaces

\* C3: the round trip of a store that holds triples and bound prefixes and
\* came back as it was
C3_Witness ==
    /\ op = "reparse"
    /\ NonOverlapping(graph)
    /\ graph.triples # {}
    /\ DOMAIN graph.namespaces # {}
    /\ res.exc = None
    /\ res.graph = graph

(***************************************************************************)
(* Node identity resolution as a state machine                             *)
(***************************************************************************)

\* the most fresh identities (anonymous nodes, uuid tokens) drawn
MaxFresh == 2

IdentityClasses == {Person, Plain}

IdentityValues == {None, PyStr(""), PyStr("1"), PyStr("1:x"), PyStr("urn:x")}

IdentityGenerators == {None} \cup {PyStr(g) : g \in Generators}

IdentityBases ==
    {None, PyStr("https://example.org/base"), PyStr("https://example.org/base#")}

IdentityRecords ==
    {Construct(cls, [id |-> id, rdf_auto_uuid |-> PyBool(auto),
                     rdf_uri_generator |-> generator]) :
        cls \in IdentityClasses, id \in IdentityValues, auto \in BOOLEAN,
        generator \in IdentityGenerators}

\* self._subject_uri(base_uri=base_uri, rdf_uri_generator=rdf_uri_generator)
SubjectUri(self, base_uri, rdf_uri_generator) ==
    \E r \in {subject_uri(self, base_uri, rdf_uri_generator, fresh)} :
       /\ r.fresh <= MaxFresh
       /\ op' = "subject_uri"
       /\ arg' = [self |-> self, base_uri |-> base_uri,
                  rdf_uri_generator |-> rdf_uri_generator, fresh |-> fresh]
       /\ res' = r
       /\ fresh' = r.fresh
       /\ UNCHANGED <<graph, rec, hist>>

NextIdentity ==
    \E self \in IdentityRecords, base_uri \in IdentityBases,
       rdf_uri_generator \in IdentityGenerators :
        SubjectUri(self, base_uri, rdf_uri_generator)

SpecIdentity == Init /\ [][NextIdentity]_vars

\* s starts with a letter followed by letters, digits, "+", "." or "-" up to
\* a colon
HasScheme(s) ==
    \E k \in 2..Len(s) :
        /\ Ch(s, k) = ":"
        /\ Ch(s, 1) \in Letters
        /\ \A j \in 2..(k - 1) : Ch(s, j) \in Letters \cup Digits \cup {"+", ".", "-"}

\* the subject step 1 builds from the string form s of the identifier value
StepOneSubject(cls, s, base_uri) ==
    IF HasScheme(s) THEN URIRef(s)
    ELSE IF cls.rdf_namespace # None THEN URIRef(cls.rdf_namespace.s \o s)
    ELSE IF base_uri # None
    THEN URIRef((IF Ch(base_uri.s, Len(base_uri.s)) \in {"/", "#"}
                 THEN base_uri.s ELSE base_uri.s \o "/") \o s)
    ELSE URIRef(s)

\* step 1 decided, and neither the identity function nor a fresh identity
\* was reached
StepOneOnly(cls) ==
    /\ res.step = "identifier"
    /\ res.invoked = None
    /\ res.fresh = arg.fresh
    /\ res.subject = StepOneSubject(cls, Str(GetAttr(arg.self, "id")), arg.base_uri)

\* C9 as stated: whenever the identifier field holds a non-null value, step 1
\* decides the subject (the value verbatim if it has a leading scheme, else the
\* namespace or, without one, the normalised base, followed by the value) and
\* no later step is reached.
C9_NonNullNeverFallsThrough ==
    (op = "subject_uri" /\ GetAttr(arg.self, "id") # None)
        => StepOneOnly(Class(arg.self.cls))

\* C9: whenever the identifier field holds a non-null value whose string form
\* is not empty, step 1 decides the subject - the value verbatim if it has a
\* leading scheme, else the namespace followed by the value, else the
\* normalised base followed by the value, else the value alone - and no later
\* step is reached.
C9_NonEmptyNeverFallsThrough ==
    (op = "subject_uri" /\ GetAttr(arg.self, "id") # None
        /\ Str(GetAttr(arg.self, "id")) # "")
        => StepOneOnly(Class(arg.self.cls))

\* C9: a value without a leading scheme was qualified by the normalised base
\* although an identity function was at hand and auto-generation was off
C9_Witness ==
    /\ op = "subject_uri"
    /\ GetAttr(arg.self, "id") = PyStr("1:x")
    /\ arg.self.cls = "Plain"
    /\ arg.base_uri = PyStr("https://example.org/base")
    /\ arg.rdf_uri_generator # None
    /\ ~GetAttr(arg.self, "rdf_auto_uuid").b
    /\ res.subject = URIRef("https://example.org/base/1:x")

\* C10: identity-function precedence. With no identifier value, the function
\* called is the per-call one if given, else the instance's; it is called with
\* the instance and its non-null result is the subject; with no function, or a
\* null result, the subject is a fresh anonymous node when auto-generated
\* identifiers are off and a fresh token otherwise.
C10_GeneratorPrecedence ==
    (op = "subject_uri" /\ GetAttr(arg.self, "id") = None)
        => LET perCall == arg.rdf_uri_generator
               chosen == IF perCall # None THEN perCall
                         ELSE GetAttr(arg.self, "rdf_uri_generator")
               result == IF chosen = None THEN None
                         ELSE CallGenerator(chosen, arg.self, arg.fresh)
           IN /\ res.invoked = chosen
              /\ result # None => res.step = "generator" /\ res.subject = result
              /\ result = None =>
                    /\ res.fresh = arg.fresh + 1
                    /\ IF GetAttr(arg.self, "rdf_auto_uuid").b
                       THEN res.step = "uuid" /\ res.subject.t = "URIRef"
                       ELSE res.step = "bnode" /\ res.subject.t = "BNode"

\* C10: a per-call identity function won over a different one of the instance
C10_Witness ==
    /\ op = "subject_uri"
    /\ GetAttr(arg.self, "id") = None
    /\ arg.rdf_uri_generator = PyStr("uri_generator")
    /\ GetAttr(arg.self, "rdf_uri_generator") = PyStr("bnode_generator")
    /\ res.subject = URIRef(EX \o "Person/None")

(***************************************************************************)
(* Parsing documents of line notation as a state machine.  A document is a *)
(* list of line descriptors: a prefix declaration, or a triple whose terms *)
(* are absolute identifiers but for one position written differently.      *)
(***************************************************************************)

\* the most lines of a document
MaxLines == 2

DocPrefixes == {"ex", "foo"}

\* the base a document declares for a prefix
DocBase(prefix) == IF prefix = "ex" THEN EX ELSE "https://foo.example/"

\* the positions of a triple line that can hold a prefix:local token
DocPositions == {"subject", "predicate", "object", "datatype"}

DocLines ==
    [kind : {"prefix"}, prefix : DocPrefixes, position : {"-"}]
    \cup [kind : {"triple"}, prefix : DocPrefixes, position : DocPositions]
    \cup [kind : {"triple"}, prefix : {"-"}, position : {"a", "literal", "-"}]

RECURSIVE DocsOfLength(_)
DocsOfLength(n) ==
    IF n = 0 THEN {<<>>}
    ELSE {Append(d, l) : d \in DocsOfLength(n - 1), l \in DocLines}

Docs == UNION {DocsOfLength(n) : n \in 0..MaxLines}

\* the text of one line
LineText(l) ==
    IF l.kind = "prefix"
    THEN "@prefix " \o l.prefix \o ": <" \o DocBase(l.prefix) \o "> ."
    ELSE (IF l.position = "subject" THEN l.prefix \o ":s" ELSE "<https://example.org/s>")
         \o " "
         \o (IF l.position = "predicate" THEN l.prefix \o ":p"
             ELSE IF l.position = "a" THEN "a" ELSE "<https://example.org/p>")
         \o " "
         \o (IF l.position = "object" THEN l.prefix \o ":o"
             ELSE IF l.position = "datatype" THEN "\"v w\"^^" \o l.prefix \o ":t"
             ELSE IF l.position = "literal" THEN "\"foo:v\"@en"
             ELSE "<https://example.org/o>")
         \o " ."

\* the text of a document
DocText(doc) == Join([i \in 1..Len(doc) |-> LineText(doc[i])], "\n")

\* graph.parse(data=..., format="turtle") on a store that so far has only
\* been bound: the store keeps what the parse did before it failed
ParseDoc(doc) ==
    /\ op \in {"init", "bind"}
    /\ \E r \in {GraphParse(graph, DocText(doc), "turtle")} :
          /\ graph' = r.graph
          /\ res' = r.exc
    /\ op' = "parse"
    /\ arg' = [doc |-> doc, before |-> graph]
    /\ UNCHANGED <<rec, hist, fresh>>

\* a bind on the store before any document is parsed
BindFirst == op = "init" /\ Bind("ex", EX)

NextParse ==
    \/ BindFirst
    \/ \E doc \in Docs : ParseDoc(doc)

SpecParse == Init /\ [][NextParse]_vars

\* the prefixes bound when line i of doc is reached: those of the store and
\* those declared by the lines before i
BoundBefore(doc, i, before) ==
    (DOMAIN before.namespaces)
        \cup {doc[j].prefix : j \in {k \in 1..(i - 1) : doc[k].kind = "prefix"}}

\* line i uses a prefix that nothing before it has bound
UsesUnbound(doc, i, before) ==
    /\ doc[i].kind = "triple"
    /\ doc[i].position \in DocPositions
    /\ doc[i].prefix \notin BoundBefore(doc, i, before)

\* C7: unknown prefix failure. A document with a prefix:local token (subject,
\* predicate, object or literal datatype) whose prefix no earlier @prefix line
\* and no earlier bind has bound fails with the unknown-prefix error of the
\* first such token, whatever is declared later; the lines before it have
\* taken effect and no line after it has.
C7_UnknownPrefix ==
    op = "parse" =>
        \A i \in 1..Len(arg.doc) :
            (/\ UsesUnbound(arg.doc, i, arg.before)
             /\ \A j \in 1..(i - 1) : ~UsesUnbound(arg.doc, j, arg.before))
            => /\ res = Raise("ValueError", "Unknown prefix " \o arg.doc[i].prefix)
               /\ Cardinality(graph.triples) <= i - 1
               /\ DOMAIN graph.namespaces = BoundBefore(arg.doc, i, arg.before)

\* C7: a document used a prefix in its first line and declared it in its
\* second, and the parse failed
C7_Witness ==
    /\ op = "parse"
    /\ Len(arg.doc) = 2
    /\ UsesUnbound(arg.doc, 1, arg.before)
    /\ arg.doc[1].position = "datatype"
    /\ arg.doc[2] = [kind |-> "prefix", prefix |-> arg.doc[1].prefix, position |-> "-"]
    /\ IsRaise(res)

(***************************************************************************)
(* Subject inference and full-document deserialization as a state machine  *)
(***************************************************************************)

InferSubjects ==
    {URIRef(EX_PERSON \o "1"), URIRef(EX_PERSON \o "2"), URIRef(EX_PERSON \o "3")}

InferStatements ==
    {<<RDF_type, Person.rdf_type>>, <<RDF_type, Address.rdf_type>>,
     <<URIRef(SCHEMA \o "name"), Literal(PyStr("Ada"), None, None)>>}

InferUniverse == {<<s, po[1], po[2]>> : s \in InferSubjects, po \in InferStatements}

\* the record types inference is asked for: one that declares rdf_type, one
\* that does not
InferClasses == {Person, Document}

\* cls._infer_subject(graph)
InferSubject(cls) ==
    /\ \E order \in IterOrders(InferTriples(cls, graph)) :
            res' = infer_subject(cls, [i \in 1..Len(order) |-> order[i][1]])
    /\ op' = "infer_subject"
    /\ arg' = [cls |-> cls.name]
    /\ UNCHANGED <<graph, rec, hist, fresh>>

\* cls.from_rdf(graph.serialize(format="turtle"), format="turtle",
\* subject=subject)
FromRdfDocument(cls, subject) ==
    /\ \E data \in GraphSerialize(graph, "turtle") :
            /\ arg' = [cls |-> cls.name, subject |-> subject, data |-> data]
            /\ res' \in from_rdf(cls, data, "turtle", subject, None)
    /\ op' = "from_rdf"
    /\ UNCHANGED <<graph, rec, hist, fresh>>

NextInfer ==
    \/ \E triple \in InferUniverse : Add(triple)
    \/ \E cls \in InferClasses : InferSubject(cls)
    \/ \E cls \in InferClasses, subject \in InferSubjects \cup {None} :
            FromRdfDocument(cls, subject)

SpecInfer == Init /\ [][NextInfer]_vars

\* the subjects of the store that carry the type triple of cls
Carriers(cls) ==
    {tr[1] : tr \in {x \in graph.triples : x[2] = RDF_type /\ x[3] = cls.rdf_type}}

\* the subjects of all triples of the store
AllSubjects == {tr[1] : tr \in graph.triples}

AmbiguousType ==
    Raise("ValueError", "Multiple resources of the requested rdf:type were found; provide the subject explicitly.")

AmbiguousGraph ==
    Raise("ValueError", "Multiple resources found in graph; provide the subject explicitly.")

\* C5: ambiguity rejection. For a record type that declares a type predicate
\* and a store where two or more distinct subjects carry that type triple,
\* subject inference raises the ambiguous-subject error (and so does a
\* full-document deserialize without a subject); the same deserialize given an
\* explicit subject returns a record of the type.
C5_AmbiguityRejection ==
    \A cls \in {c \in InferClasses : c.rdf_type # None} :
        (op \in {"infer_subject", "from_rdf"} /\ arg.cls = cls.name
            /\ Cardinality(Carriers(cls)) >= 2) =>
            /\ op = "infer_subject" => res = AmbiguousType
            /\ (op = "from_rdf" /\ arg.subject = None) => res = AmbiguousType
            /\ (op = "from_rdf" /\ arg.subject # None)
                    => res.t = "model" /\ res.cls = cls.name

\* C5: a full-document deserialize of an ambiguous store succeeded for an
\* explicit subject that carries the type
C5_Witness ==
    /\ op = "from_rdf"
    /\ arg.cls = "Person"
    /\ Cardinality(Carriers(Person)) >= 2
    /\ arg.subject \in Carriers(Person)
    /\ res.t = "model"
    /\ GetAttr(res, "id") = PyStr("2")

\* C6: subject inference without a type predicate. For a record type that
\* declares none, inference looks at the distinct subjects of all triples: with
\* none it returns no match, and a full-document deserialize without a subject
\* then fails asking for one; with exactly one it returns that subject; with
\* more than one it raises the ambiguity error.
C6_UntypedInference ==
    \A cls \in {c \in InferClasses : c.rdf_type = None} :
        (op \in {"infer_subject", "from_rdf"} /\ arg.cls = cls.name) =>
            /\ op = "infer_subject" =>
                  CASE Cardinality(AllSubjects) = 0 -> res = None
                    [] Cardinality(AllSubjects) = 1 -> res \in AllSubjects
                    [] OTHER -> res = AmbiguousGraph
            /\ (op = "from_rdf" /\ arg.subject = None /\ AllSubjects = {})
                  => res = Raise("ValueError", "Unable to determine subject for RDF document; provide the subject explicitly.")

\* C6: the one subject of a store of two triples was inferred
C6_Witness ==
    /\ op = "infer_subject"
    /\ arg.cls = "Document"
    /\ Cardinality(graph.triples) = 2
    /\ Cardinality(AllSubjects) = 1
    /\ res \in AllSubjects

(***************************************************************************)
(* The mapping engine as a state machine: one record is built, serialized  *)
(* into the store or to text, and read back                                *)
(***************************************************************************)

\* the most texts kept of the record's serializations
MaxTexts == 2

TheAddress == Construct(Address, [id |-> PyStr("a1"), street |-> PyStr("1 Main St")])

\* the records a Person can know
Friend(id, name) == Construct(Person, [id |-> PyStr(id), name |-> PyStr(name)])

\* the records under test: with a short identifier, an absolute one and none;
\* with and without a quote in a string; with and without nested records
Records ==
    {Construct(Person, [id |-> id, name |-> name, email |-> email,
                        address |-> address, knows |-> PyList(knows)]) :
        id \in {None, PyStr("1"), PyStr(EX_PERSON \o "9")},
        name \in {PyStr("Ada"), PyStr("a\"b")},
        email \in {None, PyStr("ada@example.org")},
        address \in {None, TheAddress},
        knows \in {<<>>, <<Friend("2", "Bob")>>,
                   <<Friend("2", "Bob"), Friend("3", "Cy")>>}}

\* the record is built
NewRecord(r) ==
    /\ rec = None
    /\ rec' = r
    /\ op' = "new"
    /\ UNCHANGED <<graph, arg, res, hist, fresh>>

\* rec.to_rdf_graph(graph): arg is the subject the record resolved to, res the
\* exception raised (None without one); the graph keeps what was added to it
ToRdfGraph ==
    /\ rec # None
    /\ \E r \in {to_rdf_graph(rec, graph, None, None, fresh)} :
          /\ r.fresh <= MaxFresh
          /\ graph' = r.graph
          /\ arg' = r.subject
          /\ fresh' = r.fresh
          /\ res' = r.exc
    /\ op' = "to_rdf_graph"
    /\ UNCHANGED <<rec, hist>>

\* rec.to_rdf("turtle"): a fresh store is filled and rendered
ToRdf ==
    /\ rec # None
    /\ Len(hist) < MaxTexts
    /\ \E r \in {to_rdf_graph(rec, NewGraph, None, None, fresh)} :
          /\ r.fresh <= MaxFresh
          /\ arg' = r.subject
          /\ fresh' = r.fresh
          /\ \/ /\ r.exc # None
                /\ res' = r.exc
                /\ hist' = hist
             \/ /\ r.exc = None
                /\ \E text \in GraphSerialize(r.graph, "turtle") :
                      /\ res' = PyStr(text)
                      /\ hist' = Append(hist, text)
    /\ op' = "to_rdf"
    /\ UNCHANGED <<graph, rec>>

\* type(rec).from_rdf_graph(graph, subject) right after rec.to_rdf_graph(graph),
\* with the subject it resolved to
FromRdfGraph ==
    /\ op = "to_rdf_graph"
    /\ res' \in from_rdf_graph(Class(rec.cls), graph, arg, None)
    /\ op' = "from_rdf_graph"
    /\ UNCHANGED <<graph, rec, arg, hist, fresh>>

\* type(rec).from_rdf(text, format="turtle", subject=subject) right after
\* text = rec.to_rdf("turtle"), with the subject it resolved to
FromRdf ==
    /\ op = "to_rdf"
    /\ res.t = "str"
    /\ res' \in from_rdf(Class(rec.cls), res.s, "turtle", arg, None)
    /\ op' = "from_rdf"
    /\ UNCHANGED <<graph, rec, arg, hist, fresh>>

\* rec.to_rdf_graph(graph) once more, right after rec.to_rdf_graph(graph): res
\* keeps the subject and the store of the call before
Reserialize ==
    /\ op = "to_rdf_graph"
    /\ \E r \in {to_rdf_graph(rec, graph, None, None, fresh)} :
          /\ r.fresh <= MaxFresh
          /\ graph' = r.graph
          /\ arg' = r.subject
          /\ fresh' = r.fresh
          /\ res' = [subject |-> arg, before |-> graph, exc |-> r.exc]
    /\ op' = "reserialize"
    /\ UNCHANGED <<rec, hist>>

NextMap ==
    \/ \E r \in Records : NewRecord(r)
    \/ ToRdfGraph
    \/ ToRdf
    \/ FromRdfGraph
    \/ FromRdf
    \/ Reserialize

SpecMap == Init /\ [][NextMap]_vars

\* r and the records nested in it carry an identifier value
Identified(r) ==
    /\ GetAttr(r, "id") # None
    /\ GetAttr(r, "address") # None => GetAttr(GetAttr(r, "address"), "id") # None
    /\ \A i \in DOMAIN GetAttr(r, "knows").items :
            GetAttr(GetAttr(r, "knows").items[i], "id") # None

\* C1: round-trip identity. A record with an explicit identifier (nested
\* records carrying their own), serialized into a fresh store and deserialized
\* from its resolved subject, comes back equal field for field, both directly
\* from the store and from the text of the store parsed back.
C1_RoundTrip ==
    (op \in {"from_rdf_graph", "from_rdf"} /\ Identified(rec)) => res = rec

\* C1: a record with a nested record came back equal, directly and through
\* the text
C1_Witness ==
    /\ op \in {"from_rdf_graph", "from_rdf"}
    /\ Identified(rec)
    /\ GetAttr(rec, "address") # None
    /\ res = rec

\* C4: determinism of serialization. The texts of a record with explicit
\* identifiers, each rendered from a fresh store of its own, are the same text
\* character for character, whatever the order in which the stores yield
\* their triples and prefixes to the sort.
C4_DeterministicText ==
    (rec # None /\ Identified(rec))
        => \A i, j \in DOMAIN hist : hist[i] = hist[j]

\* C4: a record with a nested record and two known records was rendered twice
C4_Witness ==
    /\ rec # None
    /\ Identified(rec)
    /\ GetAttr(rec, "address") # None
    /\ Len(GetAttr(rec, "knows").items) = 2
    /\ Len(hist) >= 2
    /\ hist[1] = hist[2]

\* the subject of the nested Address of the records under test
AddressSubject == URIRef(EX_ADDRESS \o "a1")

\* C8: nested object graph. Serializing a record R that holds a nested record
\* N, each with its own identifier, leaves in the store a type triple for R, a
\* type triple for N and the triple (subject(R), declared predicate,
\* subject(N)); deserializing from subject(R) gives a record of R's type
\* whose field holds N rebuilt as a record of N's type.
C8_NestedRecord ==
    (rec # None /\ Identified(rec) /\ GetAttr(rec, "address") # None) =>
        /\ op = "to_rdf_graph" =>
            /\ <<arg, RDF_type, Person.rdf_type>> \in graph.triples
            /\ <<AddressSubject, RDF_type, Address.rdf_type>> \in graph.triples
            /\ <<arg, URIRef(SCHEMA \o "address"), AddressSubject>> \in graph.triples
        /\ op = "from_rdf_graph" =>
            /\ res.t = "model"
            /\ res.cls = "Person"
            /\ GetAttr(res, "address").t = "model"
            /\ GetAttr(res, "address").cls = "Address"
            /\ GetAttr(res, "address") = GetAttr(rec, "address")

\* C8: a record read back from the store holds its nested record
C8_Witness ==
    /\ op = "from_rdf_graph"
    /\ Identified(rec)
    /\ GetAttr(rec, "address") = TheAddress
    /\ res.t = "model"
    /\ GetAttr(res, "address") = TheAddress
    /\ <<AddressSubject, URIRef(SCHEMA \o "streetAddress"),
         Literal(PyStr("1 Main St"), None, None)>> \in graph.triples

\* C12: stable identity. For a record whose identifier values are explicit
\* (its own and those of its nested records), serializing it a second time
\* into the same store resolves to the same subject and leaves the set of
\* triples as it was.
C12_StableIdentity ==
    (op = "reserialize" /\ Identified(rec))
        => /\ arg = res.subject
           /\ graph.triples = res.before.triples

\* C12: a record with a nested record and two known records was serialized
\* twice into one store, which holds the triples of all four
C12_Witness ==
    /\ op = "reserialize"
    /\ Identified(rec)
    /\ GetAttr(rec, "address") # None
    /\ Len(GetAttr(rec, "knows").items) = 2
    /\ arg = res.subject
    /\ Cardinality(GraphSubjects(graph, RDF_type, None)) = 4
    /\ graph = res.before

(***************************************************************************)
(* Records of types that switch auto-generated identifiers off             *)
(***************************************************************************)

\* the NestedAddress records: with and without an identifier, a city and an
\* identity function of their own
NestedAddresses ==
    {Construct(NestedAddress, [id |-> id, city |-> city, rdf_uri_generator |-> gen]) :
        id \in {None, PyStr("my-addr")},
        city \in {None, PyStr("London"), PyStr("Paris")},
        gen \in {None, PyStr("uri_generator")}}

\* the records serialized: NestedAddress on its own and inside a NestedPerson
NestedRecords ==
    NestedAddresses \cup
    {Construct(NestedPerson, [id |-> id, name |-> name, address |-> address]) :
        id \in {None, PyStr("bob")},
        name \in {None, PyStr("Bob")},
        address \in {None} \cup NestedAddresses}

NextNested ==
    \/ \E r \in NestedRecords : NewRecord(r)
    \/ ToRdfGraph

SpecNested == Init /\ [][NextNested]_vars

\* the terms of a store
Terms(g) == UNION {{tr[1], tr[2], tr[3]} : tr \in g.triples}

\* r has no identifier value and no identity function, and its type switches
\* auto-generated identifiers off
Anonymous(r) ==
    /\ r.v.id = None
    /\ r.v.rdf_uri_generator = None
    /\ r.v.rdf_auto_uuid = PyBool(FALSE)

\* C11: anonymous-node fallback. A record of a type that switches
\* auto-generated identifiers off, with no identifier value and no identity
\* function, resolves to an anonymous node the store did not hold before, as
\* the top-level record and as a nested record (then every new linking triple
\* of the parent has such an anonymous node as its object); with an identifier
\* value the record resolves to the namespace followed by the value instead.
C11_AnonymousFallback ==
    [][op' = "to_rdf_graph" =>
        LET address == IF "address" \in DOMAIN rec.v THEN rec.v.address ELSE None
            links == {tr \in graph'.triples \ graph.triples :
                        tr[1] = arg' /\ tr[2] = URIRef(NESTED_EX \o "address")}
        IN /\ Anonymous(rec) =>
                arg'.t = "BNode" /\ arg' \notin Terms(graph)
           /\ (rec.v.rdf_auto_uuid = PyBool(FALSE) /\ rec.v.id # None) =>
                arg' = URIRef(NESTED_EX \o rec.v.id.s)
           /\ (address # None /\ Anonymous(address)) =>
                /\ Cardinality(links) = 1
                /\ \A tr \in links :
                      /\ tr[3].t = "BNode"
                      /\ tr[3] \notin Terms(graph) \cup {arg'}
                      /\ <<tr[3], RDF_type, NestedAddress.rdf_type>> \in graph'.triples
           /\ (address # None /\ address.v.rdf_auto_uuid = PyBool(FALSE)
                    /\ address.v.id # None) =>
                <<arg', URIRef(NESTED_EX \o "address"),
                  URIRef(NESTED_EX \o address.v.id.s)>> \in graph'.triples]_vars

\* C11: a record with an identifier holds a nested record without one, and
\* the store links the one to an anonymous node that carries the city
C11_Witness ==
    /\ op = "to_rdf_graph"
    /\ rec.cls = "NestedPerson"
    /\ rec.v.id = PyStr("bob")
    /\ rec.v.address # None
    /\ Anonymous(rec.v.address)
    /\ arg = URIRef(NESTED_EX \o "bob")
    /\ \E tr \in graph.triples :
          /\ tr[1] = arg
          /\ tr[2] = URIRef(NESTED_EX \o "address")
          /\ tr[3].t = "BNode"
          /\ <<tr[3], URIRef(NESTED_EX \o "city"),
                Literal(PyStr("London"), None, None)>> \in graph.triples

(***************************************************************************)
(* Serialization that fails part-way                                       *)
(***************************************************************************)

\* the values of birth_date: none, a date, and a str, which the serializer
\* cannot render
BirthDates == {None, PyDate(1815, 12, 10), PyStr("1815")}

\* the Born records: alone and with a spouse
BornRecords ==
    LET Spouses == {Construct(Born, [id |-> PyStr("2"), birth_date |-> b]) :
                        b \in BirthDates}
    IN {Construct(Born, [id |-> PyStr("1"), name |-> name, spouse |-> spouse,
                         birth_date |-> b, email |-> email]) :
            name \in {None, PyStr("Ada")},
            spouse \in {None} \cup Spouses,
            b \in BirthDates,
            email \in {None, PyStr("ada@example.org")}}

NextAtomic ==
    \/ \E r \in BornRecords : NewRecord(r)
    \/ ToRdfGraph
    \/ ToRdf

SpecAtomic == Init /\ [][NextAtomic]_vars

\* the triples a complete serialization of r adds for r itself: one for its
\* type and one for each mapped field that holds a value
OwnCount(r) ==
    1 + Cardinality({name \in {"name", "spouse", "birth_date", "email"} :
                        r.v[name] # None})

\* C13: serialization atomicity per record. When to_rdf_graph of a record
\* raises, the store holds either all the record's own triples (its type and
\* its properties) or none of them.
C13_AllOrNothing ==
    (op = "to_rdf_graph" /\ res # None) =>
        Cardinality({tr \in graph.triples : tr[1] = arg}) \in {0, OwnCount(rec)}

\* C13: the serializer of birth_date raised, after the type and the name of
\* the record were added to the store and before its email was
C13_Witness ==
    /\ op = "to_rdf_graph"
    /\ res # None
    /\ res.exc = "AttributeError"
    /\ rec.v.spouse = None
    /\ rec.v.email # None
    /\ graph.triples =
          {<<arg, RDF_type, Born.rdf_type>>,
           <<arg, URIRef(SCHEMA \o "name"), Literal(PyStr("Ada"), None, None)>>}

(***************************************************************************)
(* Literal-to-native conversion as a state machine                         *)
(***************************************************************************)

\* the texts of the literals converted
CoerceTexts ==
    {"not-a-date", "2024-01-02", "2024-01-02T03:04:05", "2024-02-30",
     "not-a-decimal", "1.5", "42", "http://purl.org/cld/freq/annual"}

CoerceDatatypes == {None, XSD_dateTime, XSD_date, XSD_decimal, XSD_integer}

\* the expected types of the fields
CoerceTypes ==
    {Type(name) : name \in {"datetime", "date", "Decimal", "int", "float", "str",
                            "DcmiFrequency"}}

\* the conversions asked for: a literal and the expected type of its field
CoerceInputs ==
    {[node |-> Literal(PyStr(text), datatype, None), expected_type |-> expected_type] :
        text \in CoerceTexts, datatype \in CoerceDatatypes,
        expected_type \in CoerceTypes}

InitCoerce ==
    /\ graph = NewGraph
    /\ rec = None
    /\ hist = <<>>
    /\ fresh = 0
    /\ op = "input"
    /\ arg \in CoerceInputs
    /\ res = None

\* node.toPython()
ToPython ==
    /\ op = "input"
    /\ op' = "toPython"
    /\ res' = toPython(arg.node)
    /\ UNCHANGED <<graph, rec, hist, fresh, arg>>

\* _node_to_python(node, expected_type, RdfProperty(EX.decimal))
NodeToPython ==
    /\ op = "input"
    /\ op' = "node_to_python"
    /\ res' = node_to_python(arg.node, arg.expected_type,
                             RdfProperty(URIRef(EX \o "decimal"), None, None))
    /\ UNCHANGED <<graph, rec, hist, fresh, arg>>

NextCoerce == ToPython \/ NodeToPython

SpecCoerce == InitCoerce /\ [][NextCoerce]_vars

\* the text cannot be parsed for the expected type
Unparsable(text, expected_type) ==
    CASE expected_type = Type("datetime") -> ~DateTimeOf(text).ok
      [] expected_type = Type("date") -> ~DateOf(text).ok
      [] expected_type = Type("Decimal") -> ~NumberOf(text).ok
      [] expected_type = Type("float") -> ~NumberOf(text).ok
      [] expected_type = Type("int") -> ~ParseInt(text).ok
      [] expected_type = Type("DcmiFrequency") -> text \notin DcmiFrequency
      [] OTHER -> FALSE

\* C14: malformed literal values degrade. Converting a literal whose text
\* cannot be parsed for the expected type of the field gives the raw text of
\* the literal as a str, and no exception.
C14_MalformedDegrades ==
    (op = "node_to_python" /\ Unparsable(arg.node.value.s, arg.expected_type))
        => res = arg.node.value

\* C14: a literal typed as a dateTime whose text is no date came back as its
\* text from the conversion to a datetime
C14_Witness ==
    /\ op = "node_to_python"
    /\ arg.node = Literal(PyStr("not-a-date"), XSD_dateTime, None)
    /\ arg.expected_type = Type("datetime")
    /\ res = PyStr("not-a-date")

(***************************************************************************)
(* Integer fields through serialization and back                           *)
(***************************************************************************)

\* the integers of the fields, each with its decimal rendering
Rendering == (0 :> "0") @@ (7 :> "7") @@ (42 :> "42") @@ (1000 :> "1000")
                @@ ((0 - 7) :> "-7") @@ ((0 - 120) :> "-120")

LevelRecords ==
    {Construct(Level, [id |-> PyStr("1"), age |-> age, depth |-> depth]) :
        age \in {None} \cup {PyInt(n) : n \in DOMAIN Rendering},
        depth \in {None, PyList(<<PyInt(7)>>), PyList(<<PyInt(0 - 7), PyInt(1000)>>)}}

NextLevel ==
    \/ \E r \in LevelRecords : NewRecord(r)
    \/ ToRdfGraph
    \/ ToRdf
    \/ FromRdfGraph
    \/ FromRdf

SpecLevel == Init /\ [][NextLevel]_vars

\* the integers of a field of r, as a set
IntsOf(r, name) ==
    IF GetAttr(r, name).t = "list"
    THEN {GetAttr(r, name).items[i] : i \in DOMAIN GetAttr(r, name).items}
    ELSE {GetAttr(r, name)} \ {None}

\* the line of the line notation for an integer n of the subject
IntLine(subject, predicate, n) ==
    "<" \o subject.s \o "> <" \o predicate \o "> \"" \o Rendering[n]
        \o "\"^^<http://www.w3.org/2001/XMLSchema#integer> ."

\* C15: literal fidelity for integers. For an integer n in an integer field
\* that declares no datatype, serialization adds a literal of value n with
\* the datatype xsd:integer, whose text in the line notation is the decimal
\* rendering of n; deserializing it, from the store or from the text,
\* gives the integer n in the field and not a string.
C15_IntegerFidelity ==
    (rec # None /\ rec.cls = "Level") =>
        /\ (op = "to_rdf_graph") =>
              /\ GraphObjects(graph, arg, URIRef(FOAF \o "age"))
                    = {Literal(v, XSD_integer, None) : v \in IntsOf(rec, "age")}
              /\ GraphObjects(graph, arg, URIRef(XKOS \o "depth"))
                    = {Literal(v, XSD_integer, None) : v \in IntsOf(rec, "depth")}
        /\ (op = "to_rdf") =>
              /\ \A v \in IntsOf(rec, "age") :
                    \E i \in DOMAIN SplitLines(res.s) :
                        SplitLines(res.s)[i] = IntLine(arg, FOAF \o "age", v.n)
              /\ \A v \in IntsOf(rec, "depth") :
                    \E i \in DOMAIN SplitLines(res.s) :
                        SplitLines(res.s)[i] = IntLine(arg, XKOS \o "depth", v.n)
        /\ (op \in {"from_rdf_graph", "from_rdf"}) =>
              /\ res.t = "model"
              /\ GetAttr(res, "age") = GetAttr(rec, "age")
              /\ IntsOf(res, "depth") = IntsOf(rec, "depth")
              /\ \A v \in IntsOf(res, "depth") : v.t = "int"

\* C15: a record with the age -120 came back from its text with the integer
\* -120 in the field
C15_Witness ==
    /\ op = "from_rdf"
    /\ rec.cls = "Level"
    /\ GetAttr(rec, "age") = PyInt(0 - 120)
    /\ res.t = "model"
    /\ GetAttr(res, "age") = PyInt(0 - 120)

(***************************************************************************)
(* The store with every notation and every query asked of it               *)
(***************************************************************************)

CodecTriples ==
    {<<URIRef(EX_PERSON \o "1"), RDF_type, URIRef(SCHEMA \o "Person")>>,
     <<URIRef(EX_PERSON \o "2"), RDF_type, URIRef(SCHEMA \o "Person")>>,
     <<URIRef(EX_PERSON \o "1"), URIRef(SCHEMA \o "name"),
       Literal(PyStr("A&B"), None, None)>>}

\* the notations asked for
Formats == {"turtle", "xml", "rdfxml", "pretty-xml", "json-ld", "nt"}

\* the texts given to Graph.parse: a document of the line notation and one
\* of the tag notation
Documents ==
    {"@prefix ex: <https://example.org/> .\n\n<https://example.org/person/3> <https://schema.org/name> \"Cy\" .\n",
     "<rdf:RDF xmlns:ex=\"https://example.org/\">\n  <rdf:Description rdf:about=\"https://example.org/person/3\">\n    <name>Cy</name>\n  </rdf:Description>\n</rdf:RDF>"}

\* the three queries of get_rdf_graph_statistics
StatisticsQueries ==
    {"\n    SELECT (COUNT(*) AS ?n)\n    WHERE {\n        ?s ?p ?o\n    }\n    ",
     "\n    SELECT ?type (COUNT(?instance) AS ?n)\n    WHERE {\n        ?instance a ?type .\n    }\n    GROUP BY ?type\n    ORDER BY ?type\n    ",
     "\n    SELECT ?property (COUNT(?property) AS ?n)\n    WHERE {\n    ?resource a ?type .\n    ?resource ?property ?value .\n    }\n    GROUP BY ?property\n    ORDER BY ?property\n    "}

\* the queries asked: the three of get_rdf_graph_statistics, one of them on
\* one line, and others
Queries ==
    StatisticsQueries \cup
    {"select (count(*) as ?n) where { ?s ?p ?o }",
     "SELECT ?s WHERE { ?s ?p ?o }",
     "ASK { ?s ?p ?o }",
     "SELECT (COUNT(*) AS ?n) WHERE { ?s a ?type }",
     ""}

\* graph.serialize(format=format)
SerializeAs(format) ==
    /\ \E out \in GraphSerialize(graph, format) :
            res' = IF format \in {"turtle", "xml", "rdfxml"} THEN PyStr(out) ELSE out
    /\ op' = "serialize"
    /\ arg' = [format |-> format]
    /\ UNCHANGED <<graph, rec, hist, fresh>>

\* graph.parse(data=data, format=format): res is the exception raised, None
\* without one
ParseAs(data, format) ==
    /\ \E r \in {GraphParse(graph, data, format)} :
          /\ Cardinality(r.graph.triples) <= MaxTriples
          /\ graph' = r.graph
          /\ res' = r.exc
    /\ op' = "parse"
    /\ arg' = [data |-> data, format |-> format, before |-> graph]
    /\ UNCHANGED <<rec, hist, fresh>>

\* list(graph.query(query))
QueryOp(query) ==
    /\ res' \in GraphQuery(graph, query)
    /\ op' = "query"
    /\ arg' = [query |-> query, before |-> graph]
    /\ UNCHANGED <<graph, rec, hist, fresh>>

NextCodec ==
    \/ \E triple \in CodecTriples : Add(triple)
    \/ Bind("schema", SCHEMA)
    \/ \E format \in Formats : SerializeAs(format)
    \/ \E data \in Documents, format \in Formats : ParseAs(data, format)
    \/ \E query \in Queries : QueryOp(query)

SpecCodec == Init /\ [][NextCodec]_vars

IsStatisticsQuery(query) ==
    \E q \in StatisticsQueries : normalized(query) = normalized(q)

\* C17: unsupported query. Every query text other than the three aggregate
\* queries (total triple count, instance count by type, triple count of the
\* typed subjects by predicate) gives the error for an unsupported query, and
\* no query changes the triples of the store.
C17_UnsupportedQuery ==
    (op = "query") =>
        /\ ~IsStatisticsQuery(arg.query) =>
              res = Raise("NotImplementedError", "SPARQL querying is not supported in this lightweight implementation")
        /\ graph.triples = arg.before.triples

\* C17: a query that is none of the three was asked of a store with triples
\* and raised
C17_Witness ==
    /\ op = "query"
    /\ arg.query = "SELECT ?s WHERE { ?s ?p ?o }"
    /\ graph.triples # {}
    /\ IsRaise(res)

(***************************************************************************)
(* Literals built by the caller and added to the store                     *)
(***************************************************************************)

LiteralValues == {PyStr("Ada"), PyStr("7")}

LiteralDatatypes == {None, XSD_string, XSD_integer}

LiteralLanguages == {None, PyStr("en")}

\* Literal(value, datatype=datatype, lang=lang)
NewLiteral(value, datatype, lang) ==
    /\ op' = "literal"
    /\ arg' = [value |-> value, datatype |-> datatype, lang |-> lang]
    /\ res' = Literal(value, datatype, lang)
    /\ UNCHANGED <<graph, rec, hist, fresh>>

\* graph.add((subject, SCHEMA.name, literal)) with the literal just built
AddLiteral(subject) ==
    /\ op = "literal"
    /\ res.t = "Literal"
    /\ Cardinality(graph.triples \cup {<<subject, URIRef(SCHEMA \o "name"), res>>})
            <= MaxTriples
    /\ graph' = GraphAdd(graph, <<subject, URIRef(SCHEMA \o "name"), res>>)
    /\ op' = "add"
    /\ arg' = [triple |-> <<subject, URIRef(SCHEMA \o "name"), res>>, before |-> graph]
    /\ res' = None
    /\ UNCHANGED <<rec, hist, fresh>>

NextLiteral ==
    \/ \E value \in LiteralValues, datatype \in LiteralDatatypes,
          lang \in LiteralLanguages : NewLiteral(value, datatype, lang)
    \/ \E subject \in StoreSubjects : AddLiteral(subject)
    \/ Serialize
    \/ Reparse

SpecLiteral == Init /\ [][NextLiteral]_vars

\* C18: literal mutual exclusion. Building a Literal with both a language
\* tag and a datatype is rejected, so no literal of the store has both.
C18_MutualExclusion ==
    /\ (op = "literal" /\ arg.datatype # None /\ arg.lang # None) => IsRaise(res)
    /\ \A tr \in graph.triples :
          tr[3].t = "Literal" => (tr[3].datatype = None \/ tr[3].lang = None)

\* C18: a literal with a language tag and a datatype is in the store
C18_Witness ==
    \E tr \in graph.triples :
        /\ tr[3].t = "Literal"
        /\ tr[3].datatype = XSD_string
        /\ tr[3].lang = PyStr("en")

(***************************************************************************)
(* A field that declares a language and a datatype                         *)
(***************************************************************************)

DescribedRecords ==
    {Construct(Described, [id |-> PyStr(id), name |-> name,
                           description |-> description]) :
        id \in {"1", "2", EX \o "3"},
        name \in {None, PyStr("Ada")},
        description \in {None, PyList(<<PyStr("Hello")>>),
                         PyList(<<PyStr("Hello"), PyStr("Hi")>>),
                         PyList(<<PyStr("a\"b")>>)}}

NextDescribed ==
    \/ \E r \in DescribedRecords : NewRecord(r)
    \/ ToRdfGraph
    \/ ToRdf
    \/ FromRdfGraph
    \/ FromRdf

SpecDescribed == Init /\ [][NextDescribed]_vars

\* the fields of cls whose RdfProperty declares a language and a datatype
Conflicting(cls) ==
    {cls.model_fields[i].name : i \in
        {j \in DOMAIN cls.model_fields :
            /\ get_rdf_property(cls.model_fields[j]) # None
            /\ Truthy(get_rdf_property(cls.model_fields[j]).language)
            /\ get_rdf_property(cls.model_fields[j]).datatype # None}}

\* C19: schema configuration error. A record type with a field whose
\* RdfProperty declares both a language and a datatype is rejected before a
\* record of it is serialized or deserialized: no such call returns, and no
\* literal of such a field reaches the store with only one of the two.
C19_SchemaConfigurationError ==
    (rec # None /\ Conflicting(Class(rec.cls)) # {}) =>
        /\ op \in {"to_rdf_graph", "to_rdf", "from_rdf_graph", "from_rdf"} => IsRaise(res)
        /\ GraphObjects(graph, arg, URIRef(DC \o "description")) = {}

\* C19: the description of a record was serialized as a literal with the
\* language tag and without the datatype
C19_Witness ==
    /\ op = "to_rdf_graph"
    /\ rec.cls = "Described"
    /\ res = None
    /\ Literal(PyStr("Hello"), None, PyStr("en"))
            \in GraphObjects(graph, arg, URIRef(DC \o "description"))

(***************************************************************************)
(* Deserialization of stores that hold a literal where a record is asked   *)
(***************************************************************************)

MismatchSubjects == {URIRef(EX_PERSON \o "1"), URIRef(DCTERMS \o "r1")}

MismatchStatements ==
    {<<URIRef(SCHEMA \o "name"), Literal(PyStr("Ada"), None, None)>>,
     <<URIRef(SCHEMA \o "address"), Literal(PyStr("1 Main St"), None, None)>>,
     <<URIRef(SCHEMA \o "address"), URIRef(EX_ADDRESS \o "a1")>>,
     <<URIRef(DCTERMS \o "audience"), Literal(PyStr("everyone"), None, None)>>,
     <<URIRef(DCTERMS \o "audience"), URIRef(DCTERMS \o "agent1")>>}

MismatchUniverse ==
    {<<s, po[1], po[2]>> : s \in MismatchSubjects, po \in MismatchStatements}

MismatchClasses == {Person, DublinCoreRecord}

\* cls.from_rdf_graph(graph, subject)
FromRdfGraphOf(cls, subject) ==
    /\ res' \in from_rdf_graph(cls, graph, subject, None)
    /\ op' = "from_rdf_graph"
    /\ arg' = [cls |-> cls.name, subject |-> subject]
    /\ UNCHANGED <<graph, rec, hist, fresh>>

NextMismatch ==
    \/ \E triple \in MismatchUniverse : Add(triple)
    \/ \E cls \in MismatchClasses, subject \in MismatchSubjects :
            FromRdfGraphOf(cls, subject)

SpecMismatch == Init /\ [][NextMismatch]_vars

\* the mapped fields of cls for which the store holds a literal object of the
\* subject
LiteralFields(cls, subject) ==
    {cls.model_fields[i] : i \in
        {j \in DOMAIN cls.model_fields :
            /\ get_rdf_property(cls.model_fields[j]) # None
            /\ \E obj \in GraphObjects(graph, subject,
                        predicate_uri(get_rdf_property(cls.model_fields[j]))) :
                    obj.t = "Literal"}}

TypeMismatch == Raise("TypeError", "Nested RDF models should be handled separately.")

\* C20 as the specification has it: a literal object of a field whose inner
\* type is or includes a record type makes deserialization raise the type
\* error.
C20_AnyRecordType ==
    (op = "from_rdf_graph" /\ arg \in [cls : STRING, subject : MismatchSubjects]) =>
        ((\E field \in LiteralFields(Class(arg.cls), arg.subject) :
            get_rdf_model_type(field_type_info(field).inner_type) # None)
         => res = TypeMismatch)

\* C20: type mismatch on deserialize. A literal object of a field whose inner
\* type is a record type makes deserialization raise the type error, and no
\* record is returned. Where the inner type is a union of a record type with
\* other types, a literal object alone raises nothing and a record is returned.
C20_TypeMismatch ==
    (op = "from_rdf_graph" /\ arg \in [cls : STRING, subject : MismatchSubjects]) =>
        /\ (\E field \in LiteralFields(Class(arg.cls), arg.subject) :
                is_rdf_model(field_type_info(field).inner_type))
              => res = TypeMismatch
        /\ (\A field \in LiteralFields(Class(arg.cls), arg.subject) :
                ~is_rdf_model(field_type_info(field).inner_type))
              => res.t = "model"

\* C20: the store holds a literal as the address of a person, and reading
\* the person raised the type error
C20_Witness ==
    /\ op = "from_rdf_graph"
    /\ arg = [cls |-> "Person", subject |-> URIRef(EX_PERSON \o "1")]
    /\ <<URIRef(EX_PERSON \o "1"), URIRef(SCHEMA \o "address"),
          Literal(PyStr("1 Main St"), None, None)>> \in graph.triples
    /\ res = TypeMismatch

(***************************************************************************)
(* Parsing documents with lines that are no triple                         *)
(***************************************************************************)

\* the lines of the documents, by kind
TextLines ==
    [triple |-> "<https://example.org/s> <https://example.org/p> \"v\" .",
     prefix |-> "@prefix ex: <https://example.org/> .",
     comment |-> "# a comment",
     blank |-> "  ",
     no_dot |-> "<https://example.org/s> <https://example.org/p> \"w\"",
     two_tokens |-> "<https://example.org/s> <https://example.org/p> .",
     open_quote |-> "<https://example.org/s> <https://example.org/p> \"x y ."]

\* the kinds of line the specification calls malformed
MalformedKinds == {"no_dot", "two_tokens", "open_quote"}

RECURSIVE KindsOfLength(_)
KindsOfLength(n) ==
    IF n = 0 THEN {<<>>}
    ELSE {Append(d, k) : d \in KindsOfLength(n - 1), k \in DOMAIN TextLines}

TextDocs == UNION {KindsOfLength(n) : n \in 0..MaxLines}

\* graph.parse(data=..., format="turtle") of the document of the kinds
ParseText(kinds) ==
    /\ \E r \in {GraphParse(graph, Join([i \in 1..Len(kinds) |-> TextLines[kinds[i]]], "\n"),
                             "turtle")} :
          /\ Cardinality(r.graph.triples) <= MaxTriples
          /\ graph' = r.graph
          /\ res' = r.exc
    /\ op' = "parse"
    /\ arg' = [kinds |-> kinds, before |-> graph]
    /\ UNCHANGED <<rec, hist, fresh>>

NextText == \E kinds \in TextDocs : ParseText(kinds)

SpecText == Init /\ [][NextText]_vars

\* C21: malformed text is fatal. A document with a line that is neither
\* blank, a comment nor a prefix declaration and that does not end with ".",
\* has fewer than three tokens or holds an unterminated quoted literal makes
\* the parse raise, and the store takes nothing from that line.
C21_MalformedFatal ==
    (op = "parse" /\ \E i \in DOMAIN arg.kinds : arg.kinds[i] \in MalformedKinds) =>
        /\ IsRaise(res)
        /\ graph.triples \subseteq arg.before.triples \cup
              {<<URIRef("https://example.org/s"), URIRef("https://example.org/p"),
                 Literal(PyStr("v"), None, None)>>}

\* C21: a document whose second line has two tokens made the parse raise
\* after its first line was added
C21_Witness ==
    /\ op = "parse"
    /\ arg.kinds = <<"triple", "two_tokens">>
    /\ arg.before.triples = {}
    /\ Cardinality(graph.triples) = 1
    /\ res = Raise("ValueError", "Unable to parse triple from line")

(***************************************************************************)
(* The blocks of the tag notation                                          *)
(***************************************************************************)

\* the indexes of the lines that open a block about the subject
BlocksAbout(lines, subject) ==
    {i \in DOMAIN lines :
        lines[i] = "  <rdf:Description rdf:about=\"" \o escape(Str(subject)) \o "\">"}

\* C22: grouping of the tag notation. The text of the tag-notation
\* serializer has exactly one block per distinct subject of the store.
C22_OneBlockPerSubject ==
    (op = "serialize" /\ arg.format \in {"xml", "rdfxml"}) =>
        \A subject \in {triple[1] : triple \in graph.triples} :
            Cardinality(BlocksAbout(SplitLines(res.s), subject)) = 1

\* C22: a store with two triples of two subjects was serialized in the tag
\* notation, with one block for each
C22_Witness ==
    /\ op = "serialize"
    /\ arg.format = "xml"
    /\ Cardinality({triple[1] : triple \in graph.triples}) = 2
    /\ \A subject \in {triple[1] : triple \in graph.triples} :
            Cardinality(BlocksAbout(SplitLines(res.s), subject)) = 1

(***************************************************************************)
(* Records with unset, empty and populated fields                          *)
(***************************************************************************)

\* Person and Document records whose fields are unset, empty or populated;
\* a list may hold None
PopulatedRecords ==
    {Construct(Person, [id |-> PyStr(id), name |-> PyStr(name), email |-> email,
                        knows |-> PyList(knows)]) :
        id \in {"1", "2"},
        name \in {"", "Ada"},
        email \in {None, PyStr(""), PyStr("ada@example.org")},
        knows \in {<<>>, <<Friend("3", "Cy")>>}}
    \cup
    {Construct(Document, [title |-> title]) :
        title \in {None, PyList(<<>>), PyList(<<PyStr("A")>>),
                   PyList(<<PyStr("A"), None>>), PyList(<<None>>),
                   PyList(<<PyStr("A"), PyStr("B")>>),
                   PyList(<<PyStr("A"), PyStr("A")>>)}}

NextPopulated ==
    \/ \E r \in PopulatedRecords : NewRecord(r)
    \/ ToRdfGraph
    \/ FromRdfGraph
    \/ Reserialize

SpecPopulated == Init /\ [][NextPopulated]_vars

\* the term of an item of a field: the subject of a nested record, else the
\* term of the plain value
ItemTerm(item, field) ==
    IF item.t = "model" THEN subject_uri(item, None, None, 0).subject
    ELSE PlainValueToNode(item, field_type_info(field).inner_type,
                          get_rdf_property(field))

\* the items of a field's value, a singular value counting as a one-item list
ItemsOf(value, field) ==
    IF field_type_info(field).is_list
    THEN {value.items[i] : i \in DOMAIN value.items} ELSE {value}

\* the triples of the subject for the mapped fields of the record whose
\* value is not None (and, if skip_empty, not an empty text either): one per
\* item that is not None, and the type triple
FieldTriples(self, subject, skip_empty) ==
    (IF Class(self.cls).rdf_type = None THEN {}
     ELSE {<<subject, RDF_type, ensure_uri(Class(self.cls).rdf_type)>>})
    \cup
    UNION {{<<subject, predicate_uri(get_rdf_property(field)), ItemTerm(item, field)>> :
                item \in ItemsOf(GetAttr(self, field.name), field) \ {None}} :
           field \in {f \in {Class(self.cls).model_fields[i] :
                                i \in DOMAIN Class(self.cls).model_fields} :
                        /\ get_rdf_property(f) # None
                        /\ GetAttr(self, f.name) # None
                        /\ ~(skip_empty /\ GetAttr(self, f.name) = PyStr(""))}}

\* C23 as stated: the triples of the record's subject after to_rdf_graph are
\* the type triple and one triple per item that is not None of every mapped
\* field whose value is neither None nor empty (an empty list, an empty text)
C23_PopulatedOnly ==
    (op = "to_rdf_graph" /\ res = None) =>
        {triple \in graph.triples : triple[1] = arg} = FieldTriples(rec, arg, TRUE)

\* C23: the triples of the record's subject after to_rdf_graph are the type
\* triple and one triple (subject, field predicate, term) per item that is
\* not None of every mapped field whose value is not None; a field without
\* annotation, a None value, an empty list and a None item add no triple,
\* and an empty text adds the triple with the empty literal
C23_MappedFieldsOnly ==
    (op = "to_rdf_graph" /\ res = None) =>
        {triple \in graph.triples : triple[1] = arg} = FieldTriples(rec, arg, FALSE)

\* C23: a document whose title list holds a text and None was serialized
\* into one triple
C23_Witness ==
    /\ op = "to_rdf_graph"
    /\ res = None
    /\ rec.cls = "Document"
    /\ rec.v.title = PyList(<<PyStr("A"), None>>)
    /\ {triple \in graph.triples : triple[1] = arg}
          = {<<arg, URIRef(DCTERMS \o "title"), Literal(PyStr("A"), None, None)>>}

(***************************************************************************)
(* _value_to_node on texts                                                 *)
(***************************************************************************)

\* the values handed to _value_to_node, the static types of the field and the
\* declarations of its RdfProperty
TermValues ==
    {PyStr("hello"), PyStr("https://example.org/x"), PyStr("urn:x"),
     PyDate(1815, 12, 10)}

TermTypes ==
    {Type("str"), Type("URIRef"),
     [o |-> "Union", args |-> <<Type("str"), Type("URIRef")>>]}

TermProperties ==
    {[t |-> "RdfProperty", predicate |-> URIRef(DC \o "description"),
      datatype |-> datatype, language |-> language, serializer |-> serializer,
      parser |-> None] :
        datatype \in {None, XSD_string, XSD_date},
        language \in {None, PyStr("en")},
        serializer \in {None, PyStr("serialize_date")}}

InitTerm ==
    /\ graph = NewGraph
    /\ rec = None
    /\ hist = <<>>
    /\ fresh = 0
    /\ op = "input"
    /\ arg \in [value : TermValues, expected_type : TermTypes, prop : TermProperties]
    /\ res = None

\* self._value_to_node(value, expected_type, prop, graph, base_uri): res is the
\* node, or the exception raised
ValueToNode ==
    /\ op = "input"
    /\ \E r \in {value_to_node(arg.value, arg.expected_type, arg.prop, graph,
                               None, None, fresh)} :
            res' = IF r.exc # None THEN r.exc ELSE r.node
    /\ op' = "value_to_node"
    /\ UNCHANGED <<graph, rec, hist, fresh, arg>>

NextTerm == ValueToNode

SpecTerm == InitTerm /\ [][NextTerm]_vars

\* the value after the custom serializer, if the field has one
Serialized(input) ==
    IF input.prop.serializer # None
    THEN CallSerializer(input.prop.serializer, input.value) ELSE input.value

\* C24: precedence of the terms of a text. A value that is a text after the
\* custom serializer becomes a literal with the declared language; else a
\* literal with the declared datatype; else a named node if the static type
\* of the field is the identifier type and the text starts with a scheme;
\* else a plain literal. No literal has a language and a datatype.
C24_TextPrecedence ==
    (op = "value_to_node" /\ Serialized(arg).t = "str") =>
        /\ res = IF arg.prop.language # None
                 THEN Literal(Serialized(arg), None, arg.prop.language)
                 ELSE IF arg.prop.datatype # None
                 THEN Literal(Serialized(arg), arg.prop.datatype, None)
                 ELSE IF arg.expected_type = Type("URIRef")
                         /\ HasScheme(Serialized(arg).s)
                 THEN URIRef(Serialized(arg).s)
                 ELSE Literal(Serialized(arg), None, None)
        /\ res.t = "Literal" => (res.lang = None \/ res.datatype = None)

\* C24: a date turned into a text by the custom serializer of a field that
\* declares a language and a datatype became a literal with the language only
C24_Witness ==
    /\ op = "value_to_node"
    /\ arg.value = PyDate(1815, 12, 10)
    /\ arg.prop.serializer = PyStr("serialize_date")
    /\ arg.prop.language = PyStr("en")
    /\ arg.prop.datatype = XSD_date
    /\ res = Literal(PyStr("1815-12-10"), None, PyStr("en"))

(***************************************************************************)
(* The identifier derived from the subject                                 *)
(***************************************************************************)

\* subjects under the namespace of Person, under a supplied base, under
\* neither, and the namespace itself
DeriveSubjects ==
    {URIRef(EX_PERSON \o "1"), URIRef("https://data.example.org/ns#7"),
     URIRef("https://data.example.org/7"), URIRef("urn:x:3"), URIRef(EX_PERSON)}

DeriveTriples ==
    {<<s, URIRef(SCHEMA \o "name"), Literal(PyStr("Ada"), None, None)>> :
        s \in DeriveSubjects}

\* the bases supplied: none, one that ends in "#", one without and one with
\* the final "/", and one that is a prefix of the namespace of Person
DeriveBases ==
    {None, PyStr("https://data.example.org/ns#"), PyStr("https://data.example.org"),
     PyStr("https://data.example.org/"), PyStr(EX)}

DeriveClasses == {Person, Plain}

\* cls.from_rdf_graph(graph, subject, base_uri=base_uri)
FromRdfGraphWith(cls, subject, base_uri) ==
    /\ res' \in from_rdf_graph(cls, graph, subject, base_uri)
    /\ op' = "from_rdf_graph"
    /\ arg' = [cls |-> cls.name, subject |-> subject, base_uri |-> base_uri]
    /\ UNCHANGED <<graph, rec, hist, fresh>>

NextDerive ==
    \/ \E triple \in DeriveTriples : Add(triple)
    \/ \E cls \in DeriveClasses, subject \in DeriveSubjects, base_uri \in DeriveBases :
            FromRdfGraphWith(cls, subject, base_uri)

SpecDerive == Init /\ [][NextDerive]_vars

\* the base with "/" appended unless it ends in "/" or "#"
NormalisedBase(base) ==
    IF Ch(base, Len(base)) \in {"/", "#"} THEN base ELSE base \o "/"

\* C25: derivation of the identifier. The identifier field of the record
\* read for a subject, which no mapped property populates, is the string of
\* the subject without the namespace of the type if that is a prefix of it;
\* else without the normalised supplied base if that is a prefix of it; else
\* the whole string.
C25_IdentifierDerivation ==
    (op = "from_rdf_graph" /\ "base_uri" \in DOMAIN arg /\ ~IsRaise(res)) =>
        res.v.id =
            IF Class(arg.cls).rdf_namespace # None
               /\ StartsWith(arg.subject.s, Class(arg.cls).rdf_namespace.s)
            THEN PyStr(From(arg.subject.s, Len(Class(arg.cls).rdf_namespace.s) + 1))
            ELSE IF arg.base_uri # None
                    /\ StartsWith(arg.subject.s, NormalisedBase(arg.base_uri.s))
            THEN PyStr(From(arg.subject.s, Len(NormalisedBase(arg.base_uri.s)) + 1))
            ELSE PyStr(arg.subject.s)

\* C25: a record without namespace read for a subject under the supplied
\* base, which lacks the final "/", took the rest of the subject as its
\* identifier
C25_Witness ==
    /\ op = "from_rdf_graph"
    /\ arg = [cls |-> "Plain", subject |-> URIRef("https://data.example.org/7"),
              base_uri |-> PyStr("https://data.example.org")]
    /\ ~IsRaise(res)
    /\ res.v.id = PyStr("7")

(***************************************************************************)
(* The recursion of Serialize and Deserialize, one call at a time          *)
(***************************************************************************)

\* the depth at which the interpreter raises RecursionError
MaxDepth == 3

\* the Person objects of the heap, and a reference to one of them
WalkIds == {"1", "2"}

Ref(id) == [t |-> "ref", id |-> id]

\* the heaps: every object knows none, one or both of the objects, itself
\* included (a list a caller appended to after construction)
Heaps ==
    {[id \in WalkIds |->
        Construct(Person, [id |-> PyStr(id), name |-> PyStr("P" \o id),
                           knows |-> PyList(knows[id])])] :
        knows \in [WalkIds -> {<<>>, <<Ref("1")>>, <<Ref("2")>>,
                               <<Ref("1"), Ref("2")>>}]}

\* the links a store can hold between the subjects of the objects
WalkTriples ==
    {<<URIRef(EX_PERSON \o a), URIRef(SCHEMA \o "knows"), URIRef(EX_PERSON \o b)>> :
        a \in WalkIds, b \in WalkIds}
    \cup {<<URIRef(EX_PERSON \o "1"), URIRef(SCHEMA \o "name"),
            Literal(PyStr("P1"), None, None)>>}

\* the call stack with its top frame replaced
WithTop(stack, frame) == [stack EXCEPT ![Len(stack)] = frame]

\* the frame of a call of _serialise_into_graph: the subject is resolved and
\* the loop over model_fields is at its start
SerialiseFrame(id, self) ==
    [self |-> id, subject |-> subject_uri(self, None, None, 0).subject,
     i |-> 1, j |-> 1]

\* the store after the first lines of _serialise_into_graph: the prefixes
\* are bound and the type triple is added
SerialiseEnter(self, g) ==
    IF ensure_uri(Class(self.cls).rdf_type) = None THEN bind_prefixes(self, g)
    ELSE GraphAdd(bind_prefixes(self, g),
                  <<subject_uri(self, None, None, 0).subject, RDF_type,
                    ensure_uri(Class(self.cls).rdf_type)>>)

\* heap[root].to_rdf_graph(graph) is called: rec is the heap, hist the stack
StartSerialise(heap, root) ==
    /\ op = "init"
    /\ rec' = [t |-> "heap", objs |-> heap]
    /\ hist' = <<SerialiseFrame(root, heap[root])>>
    /\ graph' = SerialiseEnter(heap[root], graph)
    /\ op' = "serialise"
    /\ arg' = [root |-> root]
    /\ UNCHANGED <<res, fresh>>

\* the exception of the interpreter at the depth limit unwinds the stack
RecursionError == Raise("RecursionError", "maximum recursion depth exceeded")

\* one step of _serialise_into_graph in the top frame: the next field, the
\* next item (a nested record is a call of _serialise_into_graph by
\* _value_to_node), or the return of the subject to the caller, which adds
\* the triple of the item
SerialiseStep ==
    /\ op = "serialise"
    /\ LET top == hist[Len(hist)]
           self == rec.objs[top.self]
           fields == Class(self.cls).model_fields
       IN IF top.i > Len(fields) THEN
             IF Len(hist) = 1
             THEN /\ hist' = <<>>
                  /\ res' = top.subject
                  /\ op' = "return"
                  /\ graph' = graph
             ELSE LET below == hist[Len(hist) - 1]
                      field == Class(rec.objs[below.self].cls).model_fields[below.i]
                  IN /\ graph' = GraphAdd(graph,
                                    <<below.subject,
                                      predicate_uri(get_rdf_property(field)),
                                      top.subject>>)
                     /\ hist' = WithTop(SubSeq(hist, 1, Len(hist) - 1),
                                        [below EXCEPT !.j = below.j + 1])
                     /\ UNCHANGED <<res, op>>
          ELSE LET field == fields[top.i]
                   prop == get_rdf_property(field)
                   value == GetAttr(self, field.name)
                   values == IF field_type_info(field).is_list THEN value.items
                             ELSE <<value>>
               IN IF prop = None \/ value = None \/ top.j > Len(values)
                  THEN /\ hist' = WithTop(hist, [top EXCEPT !.i = top.i + 1, !.j = 1])
                       /\ UNCHANGED <<graph, res, op>>
                  ELSE IF values[top.j] = None
                  THEN /\ hist' = WithTop(hist, [top EXCEPT !.j = top.j + 1])
                       /\ UNCHANGED <<graph, res, op>>
                  ELSE IF values[top.j].t = "ref"
                  THEN IF Len(hist) >= MaxDepth
                       THEN /\ hist' = <<>>
                            /\ res' = RecursionError
                            /\ op' = "raise"
                            /\ graph' = graph
                       ELSE /\ hist' = Append(hist,
                                    SerialiseFrame(values[top.j].id,
                                                   rec.objs[values[top.j].id]))
                            /\ graph' = SerialiseEnter(rec.objs[values[top.j].id], graph)
                            /\ UNCHANGED <<res, op>>
                  ELSE /\ graph' = GraphAdd(graph,
                                    <<top.subject, predicate_uri(prop),
                                      PlainValueToNode(values[top.j],
                                          field_type_info(field).inner_type, prop)>>)
                       /\ hist' = WithTop(hist, [top EXCEPT !.j = top.j + 1])
                       /\ UNCHANGED <<res, op>>
    /\ UNCHANGED <<rec, arg, fresh>>

\* the frame of a call of from_rdf_graph: the loop over model_fields is at
\* its start and no value is set
DeserialiseFrame(cls, subject) ==
    [cls |-> cls, subject |-> ensure_uri(subject), i |-> 1, fetched |-> FALSE,
     objects |-> <<>>, j |-> 1, items |-> <<>>, values |-> EmptyDict]

\* Person.from_rdf_graph(graph, subject) is called: hist is the stack
StartDeserialise(subject) ==
    /\ op \in {"init", "add"}
    /\ hist' = <<DeserialiseFrame("Person", subject)>>
    /\ op' = "deserialise"
    /\ arg' = [subject |-> subject]
    /\ res' = None
    /\ UNCHANGED <<graph, rec, fresh>>

\* one step of from_rdf_graph in the top frame: the objects of the next field
\* are fetched, the next object is converted (a node object of a field with a
\* model type is a call of from_rdf_graph), the items are stored as the value
\* of the field, or the record is built and returned to the caller
DeserialiseStep ==
    /\ op = "deserialise"
    /\ LET top == hist[Len(hist)]
           cls == Class(top.cls)
       IN IF top.i > Len(cls.model_fields) THEN
             \E r \in {Construct(cls,
                          IF Truthy(cls.rdf_id_field)
                             /\ cls.rdf_id_field.s \notin DOMAIN top.values
                          THEN DictSet(top.values, cls.rdf_id_field.s,
                                       identifier_from_subject(cls, top.subject, None))
                          ELSE top.values)} :
                IF Len(hist) = 1
                THEN /\ hist' = <<>>
                     /\ res' = r
                     /\ op' = "return"
                ELSE /\ hist' = WithTop(SubSeq(hist, 1, Len(hist) - 1),
                                [hist[Len(hist) - 1] EXCEPT
                                    !.items = Append(@, r), !.j = @ + 1])
                     /\ UNCHANGED <<res, op>>
          ELSE LET field == cls.model_fields[top.i]
                   prop == get_rdf_property(field)
                   info == field_type_info(field)
               IN IF prop = None
                  THEN /\ hist' = WithTop(hist, [top EXCEPT !.i = top.i + 1])
                       /\ UNCHANGED <<res, op>>
                  ELSE IF ~top.fetched
                  THEN \E objects \in IterOrders(GraphObjects(graph, top.subject,
                                                              predicate_uri(prop))) :
                          /\ hist' = WithTop(hist,
                                IF objects = <<>> THEN [top EXCEPT !.i = top.i + 1]
                                ELSE [top EXCEPT !.fetched = TRUE, !.objects = objects,
                                                 !.j = 1, !.items = <<>>])
                          /\ UNCHANGED <<res, op>>
                  ELSE IF top.j > Len(top.objects)
                  THEN /\ hist' = WithTop(hist,
                            [top EXCEPT !.i = top.i + 1, !.fetched = FALSE,
                                        !.objects = <<>>, !.items = <<>>,
                                        !.values = DictSet(top.values, field.name,
                                            IF info.is_list THEN PyList(top.items)
                                            ELSE top.items[1])])
                       /\ UNCHANGED <<res, op>>
                  ELSE IF get_rdf_model_type(info.inner_type) # None
                          /\ top.objects[top.j].t \in {"URIRef", "BNode"}
                  THEN IF Len(hist) >= MaxDepth
                       THEN /\ hist' = <<>>
                            /\ res' = RecursionError
                            /\ op' = "raise"
                       ELSE /\ hist' = Append(hist,
                                  DeserialiseFrame(get_rdf_model_type(info.inner_type).s,
                                                   top.objects[top.j]))
                            /\ UNCHANGED <<res, op>>
                  ELSE \E x \in {node_to_python(top.objects[top.j], info.inner_type, prop)} :
                          IF IsRaise(x)
                          THEN /\ hist' = <<>>
                               /\ res' = x
                               /\ op' = "raise"
                          ELSE /\ hist' = WithTop(hist,
                                    [top EXCEPT !.items = Append(@, x), !.j = @ + 1])
                               /\ UNCHANGED <<res, op>>
    /\ UNCHANGED <<graph, rec, arg, fresh>>

NextWalk ==
    \/ \E triple \in WalkTriples : op \in {"init", "add"} /\ Add(triple)
    \/ \E heap \in Heaps, root \in WalkIds : StartSerialise(heap, root)
    \/ SerialiseStep
    \/ \E subject \in {URIRef(EX_PERSON \o id) : id \in WalkIds} :
            StartDeserialise(subject)
    \/ DeserialiseStep

SpecWalk == Init /\ [][NextWalk]_vars

\* the interpreter runs the call it is in: a step of a walk that can be taken
\* is taken
SpecWalkFair == SpecWalk /\ WF_vars(SerialiseStep) /\ WF_vars(DeserialiseStep)

\* the nodes of the store
StoreNodes(g) == {triple[1] : triple \in g.triples} \cup {triple[3] : triple \in g.triples}

\* C26: termination. A Serialize of a heap of records and a Deserialize of a
\* store, once called, return or raise, and the depth of the recursion never
\* exceeds the count of the records of the heap, for Deserialize the count of
\* the nodes of the store and the subject asked for - whatever the links
\* between the records or between the subjects.
C26_BoundedTermination ==
    /\ (op \in {"serialise", "deserialise"}) ~> (op \in {"return", "raise"})
    /\ [](op = "serialise" => Len(hist) <= Cardinality(DOMAIN rec.objs))
    /\ [](op = "deserialise" =>
            Len(hist) <= Cardinality(StoreNodes(graph) \cup {arg.subject}))

\* C26: a record that knows itself made Serialize recurse to the depth limit
C26_Witness ==
    /\ op = "raise"
    /\ res = RecursionError
    /\ rec # None
    /\ Ref(arg.root) \in {rec.objs[arg.root].v.knows.items[i] :
                            i \in DOMAIN rec.objs[arg.root].v.knows.items}

(***************************************************************************)
(* Every operation on one store                                            *)
(***************************************************************************)

StableTriples ==
    {<<URIRef(EX_PERSON \o "1"), URIRef(SCHEMA \o "name"),
       Literal(PyStr("Ada"), None, None)>>,
     <<URIRef(EX_PERSON \o "1"), URIRef(SCHEMA \o "name"),
       Literal(PyStr("Bob"), None, None)>>,
     <<URIRef(EX_PERSON \o "2"), RDF_type, URIRef(SCHEMA \o "Person")>>}

StableDocuments ==
    {"@prefix ex: <https://example.org/> .\n\n<https://example.org/person/3> <https://schema.org/name> \"Cy\" .\n",
     "<https://example.org/person/3> ex:name \"Cy\" .\n"}

StableQueries ==
    {"SELECT (COUNT(*) AS ?n) WHERE { ?s ?p ?o }", "ASK { ?s ?p ?o }"}

\* list(graph.objects(subject, predicate))
ObjectsOp(subject, predicate) ==
    /\ \E order \in IterOrders(GraphObjects(graph, subject, predicate)) :
            res' = PyList(order)
    /\ op' = "objects"
    /\ arg' = [subject |-> subject, predicate |-> predicate]
    /\ UNCHANGED <<graph, rec, hist, fresh>>

\* list(graph.subjects(predicate, object))
SubjectsOp(predicate, object) ==
    /\ \E order \in IterOrders(GraphSubjects(graph, predicate, object)) :
            res' = PyList(order)
    /\ op' = "subjects"
    /\ arg' = [predicate |-> predicate, object |-> object]
    /\ UNCHANGED <<graph, rec, hist, fresh>>

\* graph.value(subject, predicate): the first object yielded, None without one
ValueOp(subject, predicate) ==
    /\ \E order \in IterOrders(GraphObjects(graph, subject, predicate)) :
            res' = IF Len(order) = 0 THEN None ELSE order[1]
    /\ op' = "value"
    /\ arg' = [subject |-> subject, predicate |-> predicate]
    /\ UNCHANGED <<graph, rec, hist, fresh>>

NextStable ==
    \/ \E triple \in StableTriples : Add(triple)
    \/ Bind("schema", SCHEMA)
    \/ \E data \in StableDocuments : ParseAs(data, "turtle")
    \/ NewRecord(Friend("1", "Ada"))
    \/ ToRdfGraph
    \/ \E subject \in {URIRef(EX_PERSON \o "1"), URIRef(EX_PERSON \o "2")} :
            FromRdfGraphOf(Person, subject)
    \/ \E subject \in {URIRef(EX_PERSON \o "1"), URIRef(EX_PERSON \o "2")} :
            ObjectsOp(subject, URIRef(SCHEMA \o "name"))
    \/ SubjectsOp(RDF_type, URIRef(SCHEMA \o "Person"))
    \/ \E subject \in {URIRef(EX_PERSON \o "1"), URIRef(EX_PERSON \o "2")} :
            ValueOp(subject, URIRef(SCHEMA \o "name"))
    \/ \E query \in StableQueries : QueryOp(query)
    \/ \E format \in {"turtle", "xml", "nt"} : SerializeAs(format)

SpecStable == Init /\ [][NextStable]_vars

\* C27: the store is monotonic. No operation removes a triple of the store,
\* and Deserialize, the lookups, a query and a text serialization leave the
\* triples and the prefix table as they are.
C27_MonotonicStore ==
    [][/\ graph.triples \subseteq graph'.triples
       /\ op' \in {"from_rdf_graph", "objects", "subjects", "value", "query",
                   "serialize"} => graph' = graph]_vars

\* C27: a parse added a triple to a store that held triples
C27_Witness ==
    /\ op = "parse"
    /\ res = None
    /\ arg.before.triples # {}
    /\ arg.before.triples \subseteq graph.triples
    /\ arg.before.triples # graph.triples

(***************************************************************************)
(* Fields with no, one and several objects                                 *)
(***************************************************************************)

ManySubjects == {URIRef(DCTERMS \o "d1"), URIRef(EX_PERSON \o "1")}

\* titles of a document and names and an email of a person
ManyTriples ==
    {<<URIRef(DCTERMS \o "d1"), URIRef(DCTERMS \o "title"),
       Literal(PyStr(title), None, None)>> : title \in {"A", "B"}}
    \cup
    {<<URIRef(EX_PERSON \o "1"), URIRef(SCHEMA \o "name"),
       Literal(PyStr(name), None, None)>> : name \in {"Ada", "Bob"}}
    \cup
    {<<URIRef(EX_PERSON \o "1"), URIRef(SCHEMA \o "email"),
       Literal(PyStr("ada@example.org"), None, None)>>}

NextMany ==
    \/ \E triple \in ManyTriples : Add(triple)
    \/ \E cls \in {Person, Document}, subject \in ManySubjects :
            FromRdfGraphOf(cls, subject)

SpecMany == Init /\ [][NextMany]_vars

\* the mapped fields of a record type
MappedFields(cls) ==
    {f \in {cls.model_fields[i] : i \in DOMAIN cls.model_fields} :
        get_rdf_property(f) # None}

\* the conversions of the objects the store holds for the field
Converted(field, g, subject) ==
    {node_to_python(obj, field_type_info(field).inner_type, get_rdf_property(field)) :
        obj \in GraphObjects(g, subject, predicate_uri(get_rdf_property(field)))}

\* C28: multiplicity on deserialize. In the record read for a subject a
\* mapped field without object in the store has its default; a multi-valued
\* field has one converted value per object; a single-valued field has the
\* conversion of one of the objects.
C28_Multiplicity ==
    (op = "from_rdf_graph" /\ ~IsRaise(res)) =>
        \A field \in MappedFields(Class(arg.cls)) :
            IF Converted(field, graph, arg.subject) = {}
            THEN res.v[field.name] = IF field.default_factory = PyStr("list")
                                     THEN PyList(<<>>) ELSE field.default
            ELSE IF field_type_info(field).is_list
            THEN /\ res.v[field.name].t = "list"
                 /\ Len(res.v[field.name].items)
                        = Cardinality(Converted(field, graph, arg.subject))
                 /\ {res.v[field.name].items[i] : i \in DOMAIN res.v[field.name].items}
                        = Converted(field, graph, arg.subject)
            ELSE res.v[field.name] \in Converted(field, graph, arg.subject)

\* C28: a document with two titles in the store was read with a list of the
\* two
C28_Witness ==
    /\ op = "from_rdf_graph"
    /\ arg.cls = "Document"
    /\ Cardinality(GraphObjects(graph, arg.subject, URIRef(DCTERMS \o "title"))) = 2
    /\ ~IsRaise(res)
    /\ res.v.title = PyList(<<PyStr("B"), PyStr("A")>>)

(***************************************************************************)
(* Deserialize, then Serialize again                                       *)
(***************************************************************************)

\* the subjects read: those of DeriveSubjects and one whose part after the
\* namespace of Person starts with a scheme
StabilitySubjects == DeriveSubjects \cup {URIRef(EX_PERSON \o "isbn:1")}

StabilityTriples ==
    {<<s, URIRef(SCHEMA \o "name"), Literal(PyStr("Ada"), None, None)>> :
        s \in {URIRef(EX_PERSON \o "1"), URIRef("https://data.example.org/7")}}

StabilityBases == {None, PyStr("https://data.example.org"), PyStr(EX)}

StabilityClasses == {Person, Plain, Document}

\* res.to_rdf_graph(base_uri=base_uri) right after
\* res = cls.from_rdf_graph(graph, subject, base_uri=base_uri): res keeps the
\* record and takes the subject it resolved to
SerialiseAgain ==
    /\ op = "from_rdf_graph"
    /\ ~IsRaise(res)
    /\ \E r \in {to_rdf_graph(res, NewGraph, arg.base_uri, None, fresh)} :
          /\ r.fresh <= MaxFresh
          /\ fresh' = r.fresh
          /\ res' = [record |-> res, subject |-> r.subject, exc |-> r.exc]
    /\ op' = "to_rdf_graph"
    /\ UNCHANGED <<graph, rec, arg, hist>>

NextStability ==
    \/ \E triple \in StabilityTriples : Add(triple)
    \/ \E cls \in StabilityClasses, subject \in StabilitySubjects,
          base_uri \in StabilityBases :
            op \in {"init", "add"} /\ FromRdfGraphWith(cls, subject, base_uri)
    \/ SerialiseAgain

SpecStability == Init /\ [][NextStability]_vars

\* the string of the subject without the namespace of the type, else without
\* the normalised base, else whole
Stripped(cls, s, base_uri) ==
    IF cls.rdf_namespace # None /\ StartsWith(s, cls.rdf_namespace.s)
    THEN From(s, Len(cls.rdf_namespace.s) + 1)
    ELSE IF base_uri # None /\ StartsWith(s, NormalisedBase(base_uri.s))
    THEN From(s, Len(NormalisedBase(base_uri.s)) + 1)
    ELSE s

\* the type declares the identifier field, and the identifier derived from
\* the subject is the whole subject, or is not empty, has no scheme of its
\* own and was cut from the prefix that the resolution of the subject puts
\* in front of it (the namespace if the type has one)
Restorable(cls, s, base_uri) ==
    /\ \E i \in DOMAIN cls.model_fields : cls.model_fields[i].name = cls.rdf_id_field.s
    /\ \/ Stripped(cls, s, base_uri) = s
       \/ /\ Stripped(cls, s, base_uri) # ""
          /\ ~HasScheme(Stripped(cls, s, base_uri))
          /\ cls.rdf_namespace # None => StartsWith(s, cls.rdf_namespace.s)

\* C29 as stated: the record read for a subject resolves, serialized again
\* with the same base, to that subject
C29_SubjectStability ==
    op = "to_rdf_graph" => res.subject = arg.subject

\* C29: the record read for a subject resolves, serialized again with the
\* same base, to that subject, if the type declares the identifier field and
\* the identifier derived from the subject is the whole subject or a
\* non-empty rest without scheme cut from the prefix the resolution uses
C29_RestorableSubject ==
    (op = "to_rdf_graph" /\ Restorable(Class(arg.cls), arg.subject.s, arg.base_uri)) =>
        res.subject = arg.subject

\* C29: a record without namespace read for a subject under the base was
\* serialized again to that subject
C29_Witness ==
    /\ op = "to_rdf_graph"
    /\ arg = [cls |-> "Plain", subject |-> URIRef("https://data.example.org/7"),
              base_uri |-> PyStr("https://data.example.org")]
    /\ res.record.v.id = PyStr("7")
    /\ res.subject = arg.subject

(***************************************************************************)
(* The dataclass resource API: RdfResource.add_to_rdf_graph                *)
(***************************************************************************)

SKOS == "http://www.w3.org/2004/02/skos/core#"

\* fields(self) of a skos.Concept: the private attributes of RdfResource and
\* two of the attributes that hold Concept resources
ConceptFields == <<"_uri", "_namespace", "related", "broader">>

\* a skos.Concept: _uri is None until set_uri or get_uri sets it
Concept(uri, related, broader) ==
    [cls |-> "Concept", _uri |-> uri, _namespace |-> PyStr(SKOS),
     related |-> related, broader |-> broader]

\* the heaps of two Concept resources: the first with and without a URI, each
\* related to none, one or both of them, and with or without a broader one
ConceptHeaps ==
    {[id \in WalkIds |->
        Concept(IF id = "1" THEN uri ELSE PyStr("urn:c" \o id),
                related[id], broader[id])] :
        uri \in {None, PyStr("urn:c1")},
        related \in [WalkIds -> {<<>>, <<Ref("1")>>, <<Ref("2")>>,
                                 <<Ref("1"), Ref("2")>>}],
        broader \in [WalkIds -> {<<>>, <<Ref("2")>>}]}

\* "if triple in g": the resource is in the graph already
AlreadyAdded_never(g, triple) == FALSE

AlreadyAdded(g, triple) == GraphContains(g, triple)

\* the first lines of add_to_rdf_graph for the resource id of the heap:
\* get_uriref (which sets _uri to a fresh urn:uuid if it is None), the type
\* triple, and the test whether it is in the graph
EnterResource(heap, id, g, n) ==
    Let(IF heap[id]._uri = None THEN PyStr("urn:uuid:" \o Uuid4(n + 1))
        ELSE heap[id]._uri, LAMBDA uri :
        [subject |-> URIRef(uri.s),
         heap |-> [heap EXCEPT ![id]._uri = uri],
         fresh |-> IF heap[id]._uri = None THEN n + 1 ELSE n,
         triple |-> <<URIRef(uri.s), RDF_type,
                      URIRef(heap[id]._namespace.s \o heap[id].cls)>>,
         present |-> AlreadyAdded(g, <<URIRef(uri.s), RDF_type,
                                       URIRef(heap[id]._namespace.s \o heap[id].cls)>>)])

\* the frame of a call that walks the attributes
ResourceFrame(id, subject) ==
    [self |-> id, subject |-> subject, i |-> 1, j |-> 1, objects |-> <<>>]

\* g.add of every triple of the list
RECURSIVE GraphAddAll(_, _)
GraphAddAll(g, triples) ==
    IF Len(triples) = 0 THEN g
    ELSE GraphAddAll(GraphAdd(g, Head(triples)), Tail(triples))

\* the resources are built
NewHeap(heap) ==
    /\ op = "init"
    /\ rec' = [t |-> "heap", objs |-> heap]
    /\ op' = "heap"
    /\ UNCHANGED <<graph, arg, res, hist, fresh>>

\* rec[root].add_to_rdf_graph(graph) is called, for the first time or again:
\* arg keeps the store before the call and the triples given to g.add
CallAdd(root) ==
    /\ op \in {"heap", "return"}
    /\ \E e \in {EnterResource(rec.objs, root, graph, fresh)} :
          /\ rec' = [rec EXCEPT !.objs = e.heap]
          /\ fresh' = e.fresh
          /\ IF e.present
             THEN /\ op' = "return"
                  /\ res' = e.subject
                  /\ hist' = <<>>
                  /\ graph' = graph
                  /\ arg' = [root |-> root, before |-> graph, added |-> <<>>]
             ELSE /\ op' = "add_to_rdf_graph"
                  /\ res' = None
                  /\ hist' = <<ResourceFrame(root, e.subject)>>
                  /\ graph' = GraphAdd(graph, e.triple)
                  /\ arg' = [root |-> root, before |-> graph, added |-> <<e.triple>>]

\* one step of add_to_rdf_graph in the top frame: the next attribute, the
\* next item (a call of add_to_rdf_graph on the resource, which returns at
\* once if its type triple is in the graph), the triples of the attribute,
\* or the return of the subject to the caller
ResourceStep ==
    /\ op = "add_to_rdf_graph"
    /\ LET top == hist[Len(hist)]
           self == rec.objs[top.self]
       IN IF top.i > Len(ConceptFields) THEN
             /\ IF Len(hist) = 1
                THEN /\ hist' = <<>>
                     /\ res' = top.subject
                     /\ op' = "return"
                ELSE /\ hist' = WithTop(SubSeq(hist, 1, Len(hist) - 1),
                                [hist[Len(hist) - 1] EXCEPT
                                    !.objects = Append(@, top.subject), !.j = @ + 1])
                     /\ UNCHANGED <<res, op>>
             /\ UNCHANGED <<graph, rec, arg, fresh>>
          ELSE IF StartsWith(ConceptFields[top.i], "_")
                  \/ ~Truthy(PyList(self[ConceptFields[top.i]]))
          THEN /\ hist' = WithTop(hist, [top EXCEPT !.i = top.i + 1])
               /\ UNCHANGED <<graph, rec, arg, fresh, res, op>>
          ELSE IF top.j > Len(self[ConceptFields[top.i]])
          THEN \E triples \in {[k \in DOMAIN top.objects |->
                                  <<top.subject,
                                    URIRef(self._namespace.s \o ConceptFields[top.i]),
                                    top.objects[k]>>]} :
                  /\ graph' = GraphAddAll(graph, triples)
                  /\ arg' = [arg EXCEPT !.added = @ \o triples]
                  /\ hist' = WithTop(hist, [top EXCEPT !.i = top.i + 1, !.j = 1,
                                                       !.objects = <<>>])
                  /\ UNCHANGED <<rec, fresh, res, op>>
          ELSE IF Len(hist) >= MaxDepth
          THEN /\ hist' = <<>>
               /\ res' = RecursionError
               /\ op' = "raise"
               /\ UNCHANGED <<graph, rec, arg, fresh>>
          ELSE \E e \in {EnterResource(rec.objs, self[ConceptFields[top.i]][top.j].id,
                                       graph, fresh)} :
                  /\ rec' = [rec EXCEPT !.objs = e.heap]
                  /\ fresh' = e.fresh
                  /\ UNCHANGED <<res, op>>
                  /\ IF e.present
                     THEN /\ hist' = WithTop(hist,
                                [top EXCEPT !.objects = Append(@, e.subject),
                                            !.j = @ + 1])
                          /\ UNCHANGED <<graph, arg>>
                     ELSE /\ hist' = Append(hist,
                                ResourceFrame(self[ConceptFields[top.i]][top.j].id,
                                              e.subject))
                          /\ graph' = GraphAdd(graph, e.triple)
                          /\ arg' = [arg EXCEPT !.added = Append(@, e.triple)]

NextResource ==
    \/ \E heap \in ConceptHeaps : NewHeap(heap)
    \/ \E root \in WalkIds : CallAdd(root)
    \/ ResourceStep

SpecResource == Init /\ [][NextResource]_vars

\* the interpreter runs the call it is in
SpecResourceFair == SpecResource /\ WF_vars(ResourceStep)

====
